---- MODULE Spec2Model ----
(***************************************************************************)
(* A model of the bank transfer harness (bank.go, util.go, main.go).       *)
(*                                                                         *)
(* The store (the SQL database) keeps the committed account tables and the *)
(* audit table `record`.  It outlives the process: a run starts on what    *)
(* earlier runs (cancelled, aborted, or with other flags) left there.      *)
(* Every goroutine of the program is a task with a program counter; every  *)
(* statement sent to the store is one step, which the store may fail.      *)
(***************************************************************************)
EXTENDS Integers, Sequences, FiniteSets, TLC

\* ------------------------------------------------------------ constants
batchSize == 100
InitialBalance == 1000
AmountLimit == 999

noDelay == 0
delayRead == 1
delayCommit == 2

\* The window of delay's target duration, in ticks of its ticker: the code
\* has ten minutes less and plus ten seconds with a tick of one second.
minDelayDuration == 1
maxDelayDuration == 3

\* ------------------------------------------------------------ bounds
\* Transfer attempts a run begins.
MaxTransfers == 2
\* Where the loop counter of an unbounded RunWithRetry stops counting.
MaxCount == 3
\* The largest TableNum a configuration has.
MaxTableNum == 2
\* The largest Concurrency a configuration has.
MaxConcurrency == 2
\* The number of times a caller calls Initialize.
MaxCalls == 2

\* The accounts and amounts the random source is taken to draw.
TransferIds == {3, 7}
Amounts == {0, 50, 998}

Shards == 0 .. (MaxTableNum - 1)
WorkerIds == 1 .. (MaxConcurrency + 2)
SeederIds == 1 .. MaxConcurrency

VARIABLES
    cfg,          \* Config, fixed by NewBankCase
    TiDBDatabase, \* main.go's global, fixed before Initialize
    accounts,     \* store: shard -> the account table [exists, batches, bal]
    record,       \* store: the audit table [exists, rows: sequence]
    stopped,      \* BankCase.stopped
    cancelled,    \* ctx.Done() is closed
    proc,         \* "running" | "aborted" (log.Fatalf) | "exited"
    main,         \* the goroutine that calls Initialize and Execute
    ch,           \* initDB's job channel and the goroutine that fills it
    seeders,      \* initDB's seeding goroutines
    verif,        \* the verifications of startVerify, per shard: the
                  \* "initial" one and the "fast" and "delayed" cadences
    since,        \* startVerify's `start`, per shard: is it more than
                  \* defaultVerifyTimeout ago
    wk,           \* Execute's transfer goroutines
    begun         \* transfer attempts begun so far (bounded by MaxTransfers)

storeVars == <<accounts, record>>
vars == <<cfg, TiDBDatabase, accounts, record, stopped, cancelled, proc,
          main, ch, seeders, verif, since, wk, begun>>

\* ------------------------------------------------------------ configuration
\* NewBankCase: a TableNum below 1 is raised to 1.
NewBankCase(c) ==
    [c EXCEPT !.TableNum = IF c.TableNum <= 1 THEN 1 ELSE c.TableNum]

\* An Execute that starts the plain goroutines only.
PlainWorkersOnly == cfg.Concurrency

\* The delay mode of the k-th goroutine Execute starts: Concurrency plain
\* workers, then (long-transaction mode) one delayRead and one delayCommit.
NumWorkers == cfg.Concurrency + (IF cfg.EnableLongTxn THEN 2 ELSE 0)
WorkerMode(k) ==
    IF k <= cfg.Concurrency THEN noDelay
    ELSE IF k = cfg.Concurrency + 1 THEN delayRead ELSE delayCommit

\* The verifications of a shard: the synchronous one of startVerify and its
\* two goroutines; only the delayed one runs verify with delayRead.
Kinds == {"initial", "fast", "delayed"}
KindMode(kd) == IF kd = "delayed" THEN delayRead ELSE noDelay

\* ------------------------------------------------------------ the store
\* An account table is kept as the batches INSERTed into it and the balances
\* UPDATE has written: the rows of the table are the ids start .. start+99 of
\* its batches, a row's balance is the one written last, and 1000 (what the
\* INSERT gave it) when none was written or 1000 was written.
NoBal == [i \in {} |-> 0]
NoTable == [exists |-> FALSE, batches |-> {}, bal |-> NoBal]
EmptyTable == [exists |-> TRUE, batches |-> {}, bal |-> NoBal]
NoRecord == [exists |-> FALSE, rows |-> <<>>]
EmptyRecord == [exists |-> TRUE, rows |-> <<>>]

HasRow(t, id) == \E b \in t.batches : b <= id /\ id < b + batchSize
Balance(t, id) == IF id \in DOMAIN t.bal THEN t.bal[id] ELSE InitialBalance

\* INSERT IGNORE of the rows (start+i, 1000) for i in [0, batchSize): starts
\* are multiples of batchSize, so a batch is there whole or not at all.
InsertBatch(t, start) == [t EXCEPT !.batches = @ \cup {start}]

RECURSIVE SumOver(_, _)
SumOver(f, ids) ==
    IF ids = {} THEN 0
    ELSE LET i == CHOOSE x \in ids : TRUE
         IN f[i] + SumOver(f, ids \ {i})

\* select count(*) from accounts<index>
TableCount(t) == Cardinality(t.batches) * batchSize

\* select sum(balance) from accounts<index>
TableSum(t) ==
    TableCount(t) * InitialBalance
    + SumOver([i \in DOMAIN t.bal |-> t.bal[i] - InitialBalance], DOMAIN t.bal)

\* An UPDATE without its WHERE: it writes the row of account 0 as well.
UpdateRowsEverywhere(t, from, to, fb, tb) ==
    [t EXCEPT !.bal = [i \in {from, to, 0} |-> IF i = to THEN tb ELSE fb]]

\* UPDATE accounts SET balance = CASE id WHEN to THEN tb WHEN from THEN fb END
\* WHERE id IN (from, to)
UpdateRows(t, from, to, fb, tb) ==
    LET new(i) == IF i = to /\ HasRow(t, to) THEN tb
                  ELSE IF i = from /\ HasRow(t, from) THEN fb
                  ELSE Balance(t, i)
        ids == {i \in (DOMAIN t.bal) \cup {from, to} : new(i) # InitialBalance}
    IN [t EXCEPT !.bal = [i \in ids |-> new(i)]]

\* ------------------------------------------------------------ tasks
OffWorker ==
    [pc |-> "off", conn |-> FALSE, from |-> 0, to |-> 0, id |-> 0, amount |-> 0,
     rows |-> {}, fromBalance |-> 0, toBalance |-> 0, tso |-> "none",
     err |-> "nil", elapsed |-> 0, target |-> 0]

OffVerifier == [pc |-> "off", conn |-> FALSE, total |-> 0, elapsed |-> 0,
                target |-> 0]

OffSeeder ==
    [pc |-> "off", conn |-> FALSE, startIndex |-> 0, i |-> 0, calls |-> 0,
     execErr |-> "nil", err |-> "nil", ret |-> "none"]

OffChannel == [closed |-> FALSE, buf |-> <<>>, next |-> 0, producer |-> "off"]

NoSets == [s \in Shards |-> 0]
StartMain == [pc |-> "initialize", i |-> 0, conn |-> FALSE, base |-> FALSE,
              calls |-> 1, sets |-> NoSets]
DeadMain == [pc |-> "dead", i |-> 0, conn |-> FALSE, base |-> FALSE,
             calls |-> 0, sets |-> NoSets]

AllOffWorkers == [k \in WorkerIds |-> OffWorker]
AllOffSeeders == [k \in SeederIds |-> OffSeeder]
AllOffVerifiers == [s \in Shards |-> [kd \in Kinds |-> OffVerifier]]
AllWithin == [s \in Shards |-> "within"]

Running == proc.status = "running"

\* ------------------------------------------------------------ connection pool
\* OpenDB(dsn, *concurrency, longConn, shortConnOnce): SetMaxOpenConns.
MaxOpenConns ==
    IF cfg.UseLongConn THEN cfg.Concurrency * 2 ELSE cfg.Concurrency

InUse ==
    (IF main.conn THEN 1 ELSE 0) + (IF main.base THEN 1 ELSE 0)
    + Cardinality({k \in SeederIds : seeders[k].conn})
    + Cardinality({k \in WorkerIds : wk[k].conn})
    + Cardinality({sk \in Shards \X Kinds : verif[sk[1]][sk[2]].conn})

\* database/sql: a limit <= 0 means no limit.
PoolFree == MaxOpenConns <= 0 \/ InUse < MaxOpenConns

\* sql.DB.Conn(ctx): a connection when one is free and the store accepts it;
\* an error when the store refuses or the context is cancelled; otherwise
\* the caller waits.
ConnOutcomes ==
    IF cancelled THEN {"err"} ELSE IF PoolFree THEN {"ok", "err"} ELSE {}

\* sql.DB.Begin / Exec / QueryRow on the shared pool (dbWrapper): no context,
\* so the caller waits for a free connection whatever ctx says.
PoolStmtOutcomes == IF PoolFree THEN {"ok", "err"} ELSE {}

\* A statement sent on a connWrapper (it carries ctx) fails once ctx is
\* cancelled; any statement may fail in the store.
StmtOutcomes(usesCtx) ==
    IF usesCtx /\ cancelled THEN {"err"} ELSE {"ok", "err"}

\* Statements of the main goroutine and of the seeders go through the pool
\* (dbWrapper) when neither connection flag is set.
Pooled == ~cfg.UseLongConn /\ ~cfg.UseShortConnOnce

\* log.Fatalf: the process ends at once; every goroutine is gone and the
\* store rolls back the transactions that were open.
Abort(reason) ==
    /\ proc' = [status |-> "aborted", reason |-> reason]
    /\ main' = DeadMain
    /\ ch' = OffChannel
    /\ seeders' = AllOffSeeders
    /\ verif' = AllOffVerifiers
    /\ since' = AllWithin
    /\ wk' = AllOffWorkers
    /\ UNCHANGED <<cfg, TiDBDatabase, cancelled, begun>>

\* ------------------------------------------------------------ Execute
\* Everything a step of one transfer goroutine leaves alone.
WorkerFrame ==
    UNCHANGED <<cfg, TiDBDatabase, stopped, cancelled, proc, main, ch,
                seeders, verif, since>>

\* Execute: start the goroutines (bank.go 411-417), then wg.Wait.
Execute ==
    /\ Running /\ main.pc = "execute"
    /\ wk' = [k \in WorkerIds |->
                IF k <= NumWorkers THEN [OffWorker EXCEPT !.pc = "start"]
                ELSE OffWorker]
    /\ main' = [main EXCEPT !.pc = "execWait"]
    /\ UNCHANGED <<cfg, TiDBDatabase, accounts, record, stopped, cancelled,
                   proc, ch, seeders, verif, since, begun>>

\* Execute returns nil once every goroutine has returned; main then returns.
ExecuteReturn ==
    /\ Running /\ main.pc = "execWait"
    /\ \A k \in WorkerIds : wk[k].pc \in {"off", "exited"}
    /\ proc' = [status |-> "exited", reason |-> "execute returned"]
    /\ main' = DeadMain
    /\ ch' = OffChannel
    /\ seeders' = AllOffSeeders
    /\ verif' = AllOffVerifiers
    /\ since' = AllWithin
    /\ wk' = AllOffWorkers
    /\ UNCHANGED <<cfg, TiDBDatabase, accounts, record, stopped, cancelled,
                   begun>>

\* The goroutine's connection: one for its lifetime in long connection mode.
WorkerStart(k) ==
    /\ Running /\ wk[k].pc = "start"
    /\ IF cfg.UseLongConn
       THEN \E o \in ConnOutcomes :
              IF o = "ok"
              THEN /\ wk' = [wk EXCEPT ![k].pc = "loop", ![k].conn = TRUE]
                   /\ WorkerFrame /\ UNCHANGED <<accounts, record, begun>>
              ELSE /\ Abort("failed to get connection")
                   /\ UNCHANGED <<accounts, record, stopped>>
       ELSE /\ wk' = [wk EXCEPT ![k].pc = "loop"]
            /\ WorkerFrame /\ UNCHANGED <<accounts, record, begun>>

\* The loop head (bank.go 380-391): leave on cancellation or on stopped,
\* else launch one more attempt.
WorkerLoop(k) ==
    /\ Running /\ wk[k].pc = "loop"
    /\ IF cancelled \/ stopped # 0
       THEN /\ wk' = [wk EXCEPT ![k] = [OffWorker EXCEPT !.pc = "exited"]]
            /\ UNCHANGED begun
       ELSE /\ begun < MaxTransfers
            /\ begun' = begun + 1
            /\ wk' = [wk EXCEPT ![k].err = "nil",
                                ![k].pc = IF cfg.UseShortConnOnce
                                          THEN "conn" ELSE "move"]
    /\ WorkerFrame /\ UNCHANGED <<accounts, record>>

\* One-shot mode: a connection per attempt (bank.go 395-403).
WorkerConn(k) ==
    /\ Running /\ wk[k].pc = "conn"
    /\ \E o \in ConnOutcomes :
         IF o = "ok"
         THEN /\ wk' = [wk EXCEPT ![k].pc = "move", ![k].conn = TRUE]
              /\ WorkerFrame /\ UNCHANGED <<accounts, record, begun>>
         ELSE /\ Abort("failed to get connection")
              /\ UNCHANGED <<accounts, record, stopped>>

\* An attempt that gives the goroutine's connection back when it ends.
AttemptReleases(e) == [OffWorker EXCEPT !.pc = "loop", !.err = e]

\* A failure that ends the goroutine.
AttemptHalts(e) == [OffWorker EXCEPT !.pc = "exited", !.err = e]

\* The attempt is over: deferred tx.Rollback, conn.Close in one-shot mode,
\* and moveMoneyWithConn drops the error.
AttemptEnd(e) ==
    [OffWorker EXCEPT !.pc = "loop", !.conn = cfg.UseLongConn, !.err = e]

\* A transaction that commits as soon as its statements are issued.
StraightToCommit(k) == "commit"

\* Where a transaction goes once its statements are issued.
BeforeCommit(k) == IF WorkerMode(k) = delayCommit THEN "delayCommit" ELSE "commit"

\* rng.Intn(c.cfg.NumAccounts) (bank.go 528): the accounts of TransferIds
\* when the table has them, any account of a smaller table.
DrawnIds ==
    IF TransferIds \subseteq 0 .. (cfg.NumAccounts - 1) THEN TransferIds
    ELSE 0 .. (cfg.NumAccounts - 1)

\* The draws that leave the loop of moveMoneyWithConn (bank.go 527-537): it
\* draws again while from = to, and with no such draw it never ends.
Draws ==
    {d \in [from : DrawnIds, to : DrawnIds, id : 0 .. (cfg.TableNum - 1),
            amount : Amounts] :
        /\ d.from < cfg.NumAccounts /\ d.to < cfg.NumAccounts
        /\ d.from # d.to /\ d.amount < AmountLimit}

\* moveMoneyWithConn up to execTransaction's Begin.
MoveMoney(k) ==
    /\ Running /\ wk[k].pc = "move"
    /\ \E d \in Draws :
       \E o \in (IF Pooled THEN PoolStmtOutcomes ELSE StmtOutcomes(TRUE)) :
         wk' = [wk EXCEPT ![k] =
                  IF o = "ok"
                  THEN [@ EXCEPT !.pc = IF WorkerMode(k) = delayRead
                                        THEN "delayRead" ELSE "read",
                                 !.conn = TRUE, !.from = d.from, !.to = d.to,
                                 !.id = d.id, !.amount = d.amount]
                  ELSE AttemptEnd("err")]
    /\ WorkerFrame /\ UNCHANGED <<accounts, record, begun>>

\* delayDuration := minDelayDuration + rng.Int63n(max - min) (bank.go 689).
DelayTargets == minDelayDuration .. (maxDelayDuration - 1)

\* The target of a delay: drawn when the delay starts (target 0: not drawn
\* yet), kept until it returns.
TargetsOf(t) == IF t.target = 0 THEN DelayTargets ELSE {t.target}

\* A tick that tests the duration only.
TickIgnoresStop(e, d) == IF e + 1 > d THEN "nil" ELSE "wait"

\* case <-ticker.C of delay (bank.go 693-700) at the tick after e ticks,
\* with target d: stopped is tested before the duration.
Tick(e, d) ==
    IF stopped # 0 THEN "err" ELSE IF e + 1 > d THEN "nil" ELSE "wait"

\* One pass of delay's select (bank.go 690-701): the ticker's case, or the
\* case of ctx.Done() once the context is cancelled.  When both are ready
\* the select takes either.
DelaySelect(e, d) == {Tick(e, d)} \cup (IF cancelled THEN {"err"} ELSE {})

\* A pass of the delay of the transaction of goroutine k, at pc `here`,
\* whose transaction goes on at `next`.
WorkerDelay(k, here, next) ==
    /\ Running /\ wk[k].pc = here
    /\ \E d \in TargetsOf(wk[k]) : \E r \in DelaySelect(wk[k].elapsed, d) :
         wk' = [wk EXCEPT ![k] =
                  IF r = "nil"
                  THEN [@ EXCEPT !.pc = next, !.elapsed = 0, !.target = 0]
                  ELSE IF r = "wait"
                  THEN [@ EXCEPT !.elapsed = @ + 1, !.target = d]
                  ELSE AttemptEnd("err")]
    /\ WorkerFrame /\ UNCHANGED <<accounts, record, begun>>

ExecDelayRead(k) == WorkerDelay(k, "delayRead", "read")

\* The rows a transaction holds locked: from its locking read to its end.
Locks(k) ==
    IF wk[k].pc \in {"update", "tso", "insert", "delayCommit", "commit"}
    THEN {<<wk[k].id, wk[k].from>>, <<wk[k].id, wk[k].to>>}
    ELSE {}

\* A locking read that waits for nobody.
AlwaysFree(k) == TRUE

RowsFree(k) ==
    \A j \in WorkerIds \ {k} :
        Locks(j) \cap {<<wk[k].id, wk[k].from>>, <<wk[k].id, wk[k].to>>} = {}

\* A transfer that moves money whatever the balance read.
AlwaysSufficient(fromBalance, amount) == TRUE

\* if fromBalance >= amount (bank.go 609): the transfer moves money.
Sufficient(fromBalance, amount) == fromBalance >= amount

\* The ids of the rows a locking read can return: the rows of from and to
\* that the table holds, or, from a store that is corrupt, a row of another
\* account as well.
ReadResults(t, w) ==
    LET asked == {i \in {w.from, w.to} : HasRow(t, i)}
        other == CHOOSE i \in 0 .. 2 : i \notin {w.from, w.to}
    IN {asked, asked \cup {other}}

\* A check that looks at the ids only.
ForeignOnly(got, w) == \E i \in got : i \notin {w.from, w.to}

\* The defensive checks of the scan: an id that was not asked for
\* (bank.go 593-599) or a count other than two (bank.go 605).
Malformed(got, w) ==
    \/ \E i \in got : i \notin {w.from, w.to}
    \/ Cardinality(got) # 2

\* SELECT id, balance ... WHERE id IN (from, to) FOR UPDATE, the scan of its
\* rows and the count check (bank.go 561-606).
ExecLockingRead(k) ==
    /\ Running /\ wk[k].pc = "read"
    /\ LET w == wk[k]
           t == accounts[w.id]
       IN \E o \in {"ok", "err"} :
            IF o = "ok"
            THEN /\ t.exists /\ RowsFree(k)
                 /\ \E got \in ReadResults(t, w) :
                      IF Malformed(got, w)
                      THEN /\ Abort(IF got \subseteq {w.from, w.to}
                                    THEN "invalid count"
                                    ELSE "unexpected account")
                           /\ UNCHANGED <<accounts, record, stopped>>
                      ELSE /\ wk' = [wk EXCEPT ![k] =
                                [w EXCEPT !.rows = got,
                                          !.fromBalance = Balance(t, w.from),
                                          !.toBalance = Balance(t, w.to),
                                          !.pc = IF Sufficient(Balance(t, w.from), w.amount)
                                                 THEN "update" ELSE BeforeCommit(k)]]
                           /\ WorkerFrame /\ UNCHANGED <<accounts, record, begun>>
            ELSE /\ wk' = [wk EXCEPT ![k] = AttemptEnd("err")]
                 /\ WorkerFrame /\ UNCHANGED <<accounts, record, begun>>

\* The UPDATE of both rows (bank.go 609-632); without TiDB the token is the
\* wall clock (bank.go 640).
ExecUpdate(k) ==
    /\ Running /\ wk[k].pc = "update"
    /\ \E o \in {"ok", "err"} :
         wk' = [wk EXCEPT ![k] =
                  IF o = "ok"
                  THEN IF TiDBDatabase THEN [@ EXCEPT !.pc = "tso"]
                       ELSE [@ EXCEPT !.pc = "insert", !.tso = "unix_nano"]
                  ELSE AttemptEnd("err")]
    /\ WorkerFrame /\ UNCHANGED <<accounts, record, begun>>

\* select @@tidb_current_ts (bank.go 635-638).
ExecTso(k) ==
    /\ Running /\ wk[k].pc = "tso"
    /\ \E o \in {"ok", "err"} :
         wk' = [wk EXCEPT ![k] =
                  IF o = "ok"
                  THEN [@ EXCEPT !.pc = "insert", !.tso = "tidb_current_ts"]
                  ELSE AttemptEnd("err")]
    /\ WorkerFrame /\ UNCHANGED <<accounts, record, begun>>

\* An audit row that carries the balances after the transfer.
AuditRowAfter(w) ==
    [from_id |-> w.from, to_id |-> w.to, from_balance |-> w.fromBalance - w.amount,
     to_balance |-> w.toBalance + w.amount, amount |-> w.amount, tso |-> w.tso]

\* The audit row of the transaction, as INSERT INTO record writes it.
AuditRow(w) ==
    [from_id |-> w.from, to_id |-> w.to, from_balance |-> w.fromBalance,
     to_balance |-> w.toBalance, amount |-> w.amount, tso |-> w.tso]

\* INSERT INTO record (bank.go 642-660).
ExecInsert(k) ==
    /\ Running /\ wk[k].pc = "insert"
    /\ \E o \in (IF record.exists THEN {"ok", "err"} ELSE {"err"}) :
         wk' = [wk EXCEPT ![k] =
                  IF o = "ok" THEN [@ EXCEPT !.pc = BeforeCommit(k)]
                  ELSE AttemptEnd("err")]
    /\ WorkerFrame /\ UNCHANGED <<accounts, record, begun>>

ExecDelayCommit(k) == WorkerDelay(k, "delayCommit", "commit")

\* An UPDATE that credits `to` and leaves `from` as it was read.
CreditOnly(t, w) ==
    UpdateRows(t, w.from, w.to, w.fromBalance, w.toBalance + w.amount)

\* What the UPDATE of the transaction wrote: absolute balances computed
\* from the locking read (bank.go 618, 622).
UpdatedTable(t, w) ==
    UpdateRows(t, w.from, w.to, w.fromBalance - w.amount, w.toBalance + w.amount)

\* A store that keeps the writes of a transaction whose Commit failed.
AlwaysDurable(o) == TRUE

\* The writes of a transaction stay in the store when tx.Commit returns nil
\* (bank.go 671); otherwise the deferred tx.Rollback (bank.go 552) or the
\* store discards them.
Durable(o) == o = "ok"

\* tx.Commit: the writes of the transaction, if it made any, reach the store
\* together; on an error none does.
ExecCommit(k) ==
    /\ Running /\ wk[k].pc = "commit"
    /\ LET w == wk[k] IN
       \E o \in {"ok", "err"} :
         /\ wk' = [wk EXCEPT ![k] = AttemptEnd(IF o = "ok" THEN "nil" ELSE "err")]
         /\ IF Durable(o) /\ Sufficient(w.fromBalance, w.amount)
            THEN /\ accounts' = [accounts EXCEPT ![w.id] = UpdatedTable(@, w)]
                 /\ record' = [record EXCEPT !.rows = Append(@, AuditRow(w))]
            ELSE UNCHANGED <<accounts, record>>
    /\ WorkerFrame /\ UNCHANGED begun

WorkerStep(k) ==
    \/ WorkerStart(k) \/ WorkerLoop(k) \/ MoveMoney(k) \/ ExecLockingRead(k)
    \/ ExecUpdate(k) \/ ExecTso(k) \/ ExecInsert(k) \/ ExecCommit(k)

\* ------------------------------------------------------------ verification
\* A verify that returns without closing its connection.
WaitVerifierHolds == [OffVerifier EXCEPT !.pc = "wait", !.conn = TRUE]

\* verify has returned (its deferred conn.Close has run, bank.go 468) and
\* the cadence waits for its next tick.
WaitVerifier == [OffVerifier EXCEPT !.pc = "wait"]

\* verify's first step: its own connection in both connection modes,
\* the shared pool otherwise (bank.go 461-471).
FirstVerifyPc == IF cfg.UseLongConn \/ cfg.UseShortConnOnce THEN "conn" ELSE "begin"

\* A verification that drops the audit table on its way.
VerifyFrameDropsAudit ==
    /\ record' = NoRecord
    /\ UNCHANGED <<cfg, TiDBDatabase, accounts, cancelled, proc, ch, seeders,
                   wk, begun>>

\* What a step of a verification leaves alone when the process goes on.
VerifyFrame ==
    UNCHANGED <<cfg, TiDBDatabase, accounts, record, cancelled, proc, ch,
                seeders, wk, begun>>

\* A watchdog whose window never ends.
NeverExpired(s) == FALSE

\* time.Since(start) > defaultVerifyTimeout (bank.go 333).
Expired(s) == since[s] = "beyond"

\* A watchdog that any successful verification resets.
AnySuccessResets(kd, res) == res = "nil"

\* start = time.Now() (bank.go 342): in the closure of the fast cadence, in
\* the branch of err == nil.
Resets(kd, res) == kd = "fast" /\ res = "nil"

\* verify has returned res ("nil" or "err") for shard s.
\*  - the initial call: startVerify ignores the result, sets `start`, starts
\*    the cadences, and initDB returns to Initialize's loop; every call of
\*    startVerify starts a set of cadences of its own with a `start` of its
\*    own, and verif and since follow the goroutines of the first set;
\*  - the fast cadence: nil resets `start`; an error later than
\*    defaultVerifyTimeout after `start` sets stopped (bank.go 334), and the
\*    goroutine goes on to log.Fatalf (bank.go 339);
\*  - the delayed cadence ignores the result.
VerifyReturn(s, kd, res) ==
    IF kd = "initial"
    THEN /\ verif' = [verif EXCEPT ![s] =
                IF main.sets[s] = 0
                THEN [initial |-> OffVerifier, fast |-> WaitVerifier,
                      delayed |-> IF cfg.EnableLongTxn THEN WaitVerifier
                                  ELSE OffVerifier]
                ELSE [@ EXCEPT !.initial = OffVerifier]]
         /\ since' = IF main.sets[s] = 0
                     THEN [since EXCEPT ![s] = "within"] ELSE since
         /\ main' = [main EXCEPT !.pc = "shardLoop", !.i = @ + 1,
                                 !.base = FALSE, !.sets[s] = @ + 1]
         /\ UNCHANGED stopped
         /\ VerifyFrame
    ELSE IF kd = "fast" /\ res = "err" /\ Expired(s)
    THEN /\ stopped' = 1
         /\ verif' = [verif EXCEPT ![s][kd] =
                        [OffVerifier EXCEPT !.pc = "fatalTimeout"]]
         /\ UNCHANGED <<main, since>>
         /\ VerifyFrame
    ELSE /\ verif' = [verif EXCEPT ![s][kd] = WaitVerifier]
         /\ since' = IF Resets(kd, res)
                     THEN [since EXCEPT ![s] = "within"] ELSE since
         /\ UNCHANGED <<main, stopped>>
         /\ VerifyFrame

\* The verification goes on to its next statement.
VerifyGoes(s, kd, v) ==
    /\ verif' = [verif EXCEPT ![s][kd] = v]
    /\ UNCHANGED <<main, since, stopped>>
    /\ VerifyFrame

\* A tick of a cadence (bank.go 314-325): call f, or return on cancellation.
CadenceTick(s, kd) ==
    /\ Running /\ kd # "initial" /\ verif[s][kd].pc = "wait"
    /\ VerifyGoes(s, kd, IF cancelled THEN [OffVerifier EXCEPT !.pc = "exited"]
                         ELSE [OffVerifier EXCEPT !.pc = FirstVerifyPc])

\* More than defaultVerifyTimeout passes without a success of the fast cadence.
TimePasses(s) ==
    /\ Running /\ verif[s]["fast"].pc \notin {"off", "exited"}
    /\ since[s] = "within"
    /\ since' = [since EXCEPT ![s] = "beyond"]
    /\ UNCHANGED <<cfg, TiDBDatabase, accounts, record, stopped, cancelled, proc,
                   main, ch, seeders, verif, wk, begun>>

VerifyConn(s, kd) ==
    /\ Running /\ verif[s][kd].pc = "conn"
    /\ \E o \in ConnOutcomes :
         IF o = "ok"
         THEN VerifyGoes(s, kd, [verif[s][kd] EXCEPT !.pc = "begin", !.conn = TRUE])
         ELSE VerifyReturn(s, kd, "err")

VerifyBegin(s, kd) ==
    /\ Running /\ verif[s][kd].pc = "begin"
    /\ \E o \in (IF Pooled THEN PoolStmtOutcomes ELSE StmtOutcomes(TRUE)) :
         IF o = "ok"
         THEN VerifyGoes(s, kd, [verif[s][kd] EXCEPT
                    !.pc = IF KindMode(kd) = delayRead THEN "delay" ELSE "sum",
                    !.conn = TRUE])
         ELSE VerifyReturn(s, kd, "err")

\* A pass of the delay of a delayed verification (bank.go 487-492).
VerifyDelay(s, kd) ==
    /\ Running /\ verif[s][kd].pc = "delay"
    /\ LET v == verif[s][kd] IN
       \E d \in TargetsOf(v) : \E r \in DelaySelect(v.elapsed, d) :
         IF r = "nil"
         THEN VerifyGoes(s, kd, [v EXCEPT !.pc = "sum", !.elapsed = 0,
                                         !.target = 0])
         ELSE IF r = "wait"
         THEN VerifyGoes(s, kd, [v EXCEPT !.elapsed = @ + 1, !.target = d])
         ELSE VerifyReturn(s, kd, "err")

\* select sum(balance): the sum of an empty table is NULL, which Scan
\* cannot store in an int (bank.go 493-498).
VerifySum(s, kd) ==
    /\ Running /\ verif[s][kd].pc = "sum"
    /\ \E o \in (IF accounts[s].exists /\ TableCount(accounts[s]) > 0
                 THEN {"ok", "err"} ELSE {"err"}) :
         IF o = "ok"
         THEN VerifyGoes(s, kd, [verif[s][kd] EXCEPT
                    !.pc = IF TiDBDatabase THEN "tso" ELSE "commit",
                    !.total = TableSum(accounts[s])])
         ELSE VerifyReturn(s, kd, "err")

\* select @@tidb_current_ts, for the log only (bank.go 499-505).
VerifyTso(s, kd) ==
    /\ Running /\ verif[s][kd].pc = "tso"
    /\ \E o \in {"ok", "err"} :
         IF o = "ok"
         THEN VerifyGoes(s, kd, [verif[s][kd] EXCEPT !.pc = "commit"])
         ELSE VerifyReturn(s, kd, "err")

\* tx.Commit (its error is dropped) and the comparison (bank.go 506-517):
\* on a mismatch stopped is set (bank.go 510) and the goroutine goes on to
\* log.Fatalf (bank.go 514).
VerifyCommit(s, kd) ==
    /\ Running /\ verif[s][kd].pc = "commit"
    /\ IF verif[s][kd].total # cfg.NumAccounts * 1000
       THEN /\ stopped' = 1
            /\ verif' = [verif EXCEPT ![s][kd].pc = "fatalMismatch"]
            /\ UNCHANGED <<main, since>>
            /\ VerifyFrame
       ELSE VerifyReturn(s, kd, "nil")

\* A fatal exit that takes the flag back.
VerifyFatalClears(s, kd) ==
    /\ Running /\ verif[s][kd].pc \in {"fatalMismatch", "fatalTimeout"}
    /\ Abort("verify timeout")
    /\ stopped' = 0
    /\ UNCHANGED <<accounts, record>>

\* log.Fatalf after stopped was set (bank.go 339, 514).
VerifyFatal(s, kd) ==
    /\ Running /\ verif[s][kd].pc \in {"fatalMismatch", "fatalTimeout"}
    /\ Abort(IF verif[s][kd].pc = "fatalMismatch"
             THEN "total mismatch" ELSE "verify timeout")
    /\ UNCHANGED <<accounts, record, stopped>>

VerifyStep(s, kd) ==
    \/ CadenceTick(s, kd) \/ VerifyBegin(s, kd) \/ VerifySum(s, kd)
    \/ VerifyTso(s, kd) \/ VerifyCommit(s, kd) \/ VerifyFatal(s, kd)

\* ------------------------------------------------------------ Initialize
MainFrame ==
    UNCHANGED <<cfg, TiDBDatabase, stopped, cancelled, proc, since, wk,
                begun>>

\* Statements on initDB's baseConn: the pool in short connection pool mode,
\* a connWrapper otherwise.
BaseStmtOutcomes == IF Pooled THEN PoolStmtOutcomes ELSE StmtOutcomes(TRUE)

\* Initialize's connection (bank.go 127-142); main makes its error fatal.
Initialize ==
    /\ Running /\ main.pc = "initialize"
    /\ IF cfg.UseLongConn /\ ~cfg.UseShortConnOnce
       THEN \E o \in ConnOutcomes :
              IF o = "ok"
              THEN /\ main' = [main EXCEPT !.pc = "shardLoop", !.conn = TRUE]
                   /\ MainFrame
                   /\ UNCHANGED <<accounts, record, ch, seeders, verif>>
              ELSE /\ Abort("initial failed")
                   /\ UNCHANGED <<accounts, record, stopped>>
       ELSE /\ main' = [main EXCEPT !.pc = "shardLoop"]
            /\ MainFrame /\ UNCHANGED <<accounts, record, ch, seeders, verif>>

\* The caller calls Initialize once more after it has returned.
InitializeAgain ==
    /\ Running /\ main.pc = "execute" /\ main.calls < MaxCalls
    /\ main' = [main EXCEPT !.pc = "initialize", !.i = 0, !.calls = @ + 1]
    /\ MainFrame /\ UNCHANGED <<accounts, record, ch, seeders, verif>>

\* Initialize's loop (bank.go 144-155): return nil after the last shard or
\* on cancellation, and main goes on to Execute; else call initDB.
ShardLoop ==
    /\ Running /\ main.pc = "shardLoop"
    /\ main' = IF main.i >= cfg.TableNum \/ cancelled
               THEN [main EXCEPT !.pc = "execute", !.conn = FALSE]
               ELSE [main EXCEPT !.pc = IF cfg.UseShortConnOnce
                                        THEN "initConn" ELSE "tryDrop"]
    /\ MainFrame /\ UNCHANGED <<accounts, record, ch, seeders, verif>>

\* initDB's own connection in one-shot mode (bank.go 164-170).
InitDBConn ==
    /\ Running /\ main.pc = "initConn"
    /\ \E o \in ConnOutcomes :
         IF o = "ok"
         THEN /\ main' = [main EXCEPT !.pc = "tryDrop", !.base = TRUE]
              /\ MainFrame /\ UNCHANGED <<accounts, record, ch, seeders, verif>>
         ELSE /\ Abort("initial failed")
              /\ UNCHANGED <<accounts, record, stopped>>

\* The initial verification of startVerify begins.
StartVerify(s) ==
    /\ verif' = [verif EXCEPT ![s]["initial"] =
                    [OffVerifier EXCEPT !.pc = FirstVerifyPc]]
    /\ main' = [main EXCEPT !.pc = "verify0"]

\* A tryDrop that drops whatever the count.
NeverMatches(t) == FALSE

\* tryDrop's test (bank.go 449): the table is kept when it holds NumAccounts
\* rows.
CountMatches(t) == TableCount(t) = cfg.NumAccounts

\* tryDrop (bank.go 429-457) and the branch of initDB on its result: the
\* probe, the count, and the two drops when the count is not NumAccounts.
\* "errRecord": the account table is dropped and DROP TABLE record fails.
TryDrop ==
    /\ Running /\ main.pc = "tryDrop"
    /\ LET s == main.i
           t == accounts[s]
           resumable == t.exists /\ CountMatches(t)
       IN \E o \in BaseStmtOutcomes \cup
                   (IF "ok" \in BaseStmtOutcomes /\ t.exists /\ ~resumable
                    THEN {"errRecord"} ELSE {}) :
            IF o = "ok"
            THEN /\ IF resumable
                    THEN /\ StartVerify(s)
                         /\ UNCHANGED <<accounts, record>>
                    ELSE /\ main' = [main EXCEPT !.pc = "create"]
                         /\ accounts' = [accounts EXCEPT ![s] = NoTable]
                         /\ record' = IF t.exists THEN NoRecord ELSE record
                         /\ UNCHANGED verif
                 /\ MainFrame /\ UNCHANGED <<ch, seeders>>
            ELSE /\ Abort("tryDrop")
                 /\ accounts' = IF o = "errRecord"
                                THEN [accounts EXCEPT ![s] = NoTable]
                                ELSE accounts
                 /\ UNCHANGED <<record, stopped>>

jobCount == cfg.NumAccounts \div batchSize

\* The two CREATE TABLE IF NOT EXISTS, then the seeding goroutines and the
\* goroutine that sends the jobs (bank.go 186-296).
\* "errRecord": the account table is created and the second CREATE fails.
CreateTables ==
    /\ Running /\ main.pc = "create"
    /\ LET s == main.i IN
       \E o \in BaseStmtOutcomes \cup
                (IF "ok" \in BaseStmtOutcomes THEN {"errRecord"} ELSE {}) :
         IF o = "ok"
         THEN /\ accounts' = [accounts EXCEPT ![s] =
                                 IF @.exists THEN @ ELSE EmptyTable]
              /\ record' = IF record.exists THEN record ELSE EmptyRecord
              /\ seeders' = [k \in SeederIds |->
                               IF k <= cfg.Concurrency
                               THEN [OffSeeder EXCEPT !.pc = "start"]
                               ELSE OffSeeder]
              /\ ch' = [closed |-> FALSE, buf |-> <<>>, next |-> 0,
                        producer |-> "run"]
              /\ main' = [main EXCEPT !.pc = "seedWait"]
              /\ MainFrame /\ UNCHANGED verif
         ELSE /\ Abort("create table")
              /\ accounts' = IF o = "errRecord"
                             THEN [accounts EXCEPT ![s] =
                                      IF @.exists THEN @ ELSE EmptyTable]
                             ELSE accounts
              /\ UNCHANGED <<record, stopped>>

\* An initDB that does not wait for its seeding goroutines.
NoWait == TRUE

\* wg.Wait() of initDB (bank.go 298): every seeding goroutine has returned.
SeedersDone == \A k \in SeederIds : seeders[k].pc \in {"off", "done"}

\* wg.Wait, then (bank.go 298-308) return nil on cancellation, else
\* startVerify.
SeedWait ==
    /\ Running /\ main.pc = "seedWait"
    /\ SeedersDone
    /\ IF cancelled
       THEN /\ main' = [main EXCEPT !.pc = "shardLoop", !.i = @ + 1,
                                    !.base = FALSE]
            /\ UNCHANGED verif
       ELSE StartVerify(main.i)
    /\ MainFrame /\ UNCHANGED <<accounts, record, ch, seeders>>

\* ------------------------------------------------------------ seeding
SeedFrame ==
    UNCHANGED <<cfg, TiDBDatabase, stopped, cancelled, proc, main, verif,
                since, wk, begun>>

\* A producer that returns and leaves the channel open.
ProducerEndsOpen == [ch EXCEPT !.producer = "done"]

\* The producer returns: defer close(ch) (bank.go 288).
ProducerEnd == [ch EXCEPT !.closed = TRUE, !.producer = "done"]

\* The goroutine that sends the jobs (bank.go 287-296).
Producer ==
    /\ Running /\ ch.producer = "run"
    /\ ch' = IF cancelled \/ ch.next >= jobCount
             THEN ProducerEnd
             ELSE [ch EXCEPT !.buf = Append(@, ch.next * batchSize),
                             !.next = @ + 1]
    /\ SeedFrame /\ UNCHANGED <<accounts, record, seeders>>

SeederStart(k) ==
    /\ Running /\ seeders[k].pc = "start"
    /\ IF cfg.UseLongConn
       THEN \E o \in ConnOutcomes :
              IF o = "ok"
              THEN /\ seeders' = [seeders EXCEPT ![k].pc = "loop",
                                                 ![k].conn = TRUE]
                   /\ SeedFrame /\ UNCHANGED <<accounts, record, ch>>
              ELSE /\ Abort("failed to get connection")
                   /\ UNCHANGED <<accounts, record, stopped>>
       ELSE /\ seeders' = [seeders EXCEPT ![k].pc = "loop"]
            /\ SeedFrame /\ UNCHANGED <<accounts, record, ch>>

DoneSeeder == [OffSeeder EXCEPT !.pc = "done"]

\* The loop head (bank.go 230-235).
SeederLoop(k) ==
    /\ Running /\ seeders[k].pc = "loop"
    /\ seeders' = [seeders EXCEPT ![k] =
                      IF cancelled THEN DoneSeeder ELSE [@ EXCEPT !.pc = "recv"]]
    /\ SeedFrame /\ UNCHANGED <<accounts, record, ch>>

\* startIndex, ok := <-ch (bank.go 236-239).
SeederRecv(k) ==
    /\ Running /\ seeders[k].pc = "recv"
    /\ IF ch.buf # <<>>
       THEN /\ seeders' = [seeders EXCEPT ![k] =
                   [@ EXCEPT !.pc = "retry", !.startIndex = Head(ch.buf),
                             !.i = 0, !.calls = 0, !.execErr = "nil",
                             !.err = "nil", !.ret = "none"]]
            /\ ch' = [ch EXCEPT !.buf = Tail(@)]
       ELSE /\ ch.closed
            /\ seeders' = [seeders EXCEPT ![k] = DoneSeeder]
            /\ UNCHANGED ch
    /\ SeedFrame /\ UNCHANGED <<accounts, record>>

\* ------------------------------------------------------------ RunWithRetry
\* error.go's IsErrDupEntry: the error is MySQL's duplicate entry error.
IsErrDupEntry(e) == e = "dup"

\* An insertF that hands every error of its Exec to RunWithRetry.
insertFRaw(e) == e

\* insertF's return value for the error e of its Exec (bank.go 271-275).
insertF(e) == IF IsErrDupEntry(e) THEN "nil" ELSE e

\* juju/errors.Trace: nil stays nil.
Trace(e) == e

\* A loop condition without the unbounded case.
RetryContinuesBounded(retryCnt, i) == i < retryCnt

\* RunWithRetry's loop condition (util.go 83).
RetryContinues(retryCnt, i) == retryCnt < 0 \/ i < retryCnt

\* i++ ; the counter is not read when retryCnt < 0, and is kept bounded there.
NextCount(i) == IF cfg.RetryLimit < 0 /\ i >= MaxCount THEN i ELSE i + 1

\* What the store may answer to the batch INSERT of a seeder:
\*   "ok"          the rows are inserted;
\*   "err"         nothing is inserted, a transient error;
\*   "errApplied"  the rows are inserted and the answer is lost;
\*   "dup"         a duplicate entry error: some row of the batch is there.
ExecOutcomes(k) ==
    {"ok", "err", "errApplied"}
    \cup (IF \E i \in 0 .. (batchSize - 1) :
               HasRow(accounts[main.i], seeders[k].startIndex + i)
          THEN {"dup"} ELSE {})

\* insertF's statement by connection mode: a connection per call in one-shot
\* mode, the seeder's connWrapper in long connection mode, the pool otherwise.
InsertOutcomes(k) ==
    IF cfg.UseShortConnOnce \/ cfg.UseLongConn
    THEN IF cancelled THEN {"err"}
         ELSE IF cfg.UseLongConn \/ PoolFree THEN ExecOutcomes(k) ELSE {}
    ELSE IF PoolFree THEN ExecOutcomes(k) ELSE {}

ExecError(o) == IF o = "ok" THEN "nil" ELSE IF o = "dup" THEN "dup" ELSE "err"

\* One pass of RunWithRetry's loop up to the select (util.go 83-88), or its
\* return after the loop (util.go 95); the caller makes an error fatal
\* (bank.go 277-281).
RunWithRetry(k) ==
    /\ Running /\ seeders[k].pc = "retry"
    /\ LET sd == seeders[k] IN
       IF RetryContinues(cfg.RetryLimit, sd.i)
       THEN \E o \in InsertOutcomes(k) :
              LET r == insertF(ExecError(o)) IN
              /\ accounts' = IF o \in {"ok", "errApplied"}
                             THEN [accounts EXCEPT ![main.i] =
                                      InsertBatch(@, sd.startIndex)]
                             ELSE accounts
              /\ seeders' = [seeders EXCEPT ![k] =
                    IF r = "nil"
                    THEN [sd EXCEPT !.pc = "loop", !.execErr = ExecError(o),
                                    !.err = "nil", !.ret = "nil",
                                    !.calls = NextCount(@)]
                    ELSE [sd EXCEPT !.pc = "backoff", !.execErr = ExecError(o),
                                    !.err = r, !.calls = NextCount(@)]]
              /\ SeedFrame /\ UNCHANGED <<record, ch>>
       ELSE IF Trace(sd.err) = "nil"
            THEN /\ seeders' = [seeders EXCEPT ![k] =
                                  [sd EXCEPT !.pc = "loop", !.ret = "nil"]]
                 /\ SeedFrame /\ UNCHANGED <<accounts, record, ch>>
            ELSE /\ Abort("exec insert")
                 /\ UNCHANGED <<accounts, record, stopped>>

\* A wait that cancellation does not end.
NeverInterrupted == FALSE

\* case <-ctx.Done() of RunWithRetry's select (util.go 90).
Interrupted == cancelled

\* The select of RunWithRetry (util.go 89-93): nil on cancellation, else the
\* next pass after the interval.
Backoff(k) ==
    /\ Running /\ seeders[k].pc = "backoff"
    /\ seeders' = [seeders EXCEPT ![k] =
                      IF Interrupted
                      THEN [@ EXCEPT !.pc = "loop", !.ret = "nil"]
                      ELSE [@ EXCEPT !.pc = "retry", !.i = NextCount(@)]]
    /\ SeedFrame /\ UNCHANGED <<accounts, record, ch>>

SeederStep(k) ==
    \/ SeederStart(k) \/ SeederLoop(k) \/ SeederRecv(k) \/ RunWithRetry(k)
    \/ Backoff(k)

\* ------------------------------------------------------------ the process
\* The signal handler of main: cancel(), then db.Close and os.Exit(0).
Cancel ==
    /\ Running /\ ~cancelled
    /\ cancelled' = TRUE
    /\ UNCHANGED <<cfg, TiDBDatabase, accounts, record, stopped, proc,
                   main, ch, seeders, verif, since, wk, begun>>

SignalExit ==
    /\ Running /\ cancelled
    /\ proc' = [status |-> "exited", reason |-> "signal"]
    /\ main' = DeadMain
    /\ ch' = OffChannel
    /\ seeders' = AllOffSeeders
    /\ verif' = AllOffVerifiers
    /\ since' = AllWithin
    /\ wk' = AllOffWorkers
    /\ UNCHANGED <<cfg, TiDBDatabase, accounts, record, stopped, cancelled,
                   begun>>

\* The flags of a run in short connection pool mode without long
\* transactions.
BaseConfig ==
    [NumAccounts |-> 100, Interval |-> 2, TableNum |-> 1, Concurrency |-> 1,
     EnableLongTxn |-> FALSE, UseLongConn |-> FALSE, UseShortConnOnce |-> FALSE,
     RetryLimit |-> 1]

\* The configurations checked: the account count varies, then the retry
\* limit.
Configs ==
    {[BaseConfig EXCEPT !.NumAccounts = n] : n \in {100, 150, 200, 1000}}
    \cup {[BaseConfig EXCEPT !.RetryLimit = r] : r \in {-1, 0, 2}}

\* What earlier runs can have left in the store when a run with the flags c
\* starts: nothing; every shard as a run seeds it (with the flags c, or with
\* -accounts 200) and not used; or seeded and used by one transfer of 998
\* from account 3 to account 7 of shard 0.
Seeded(K) == [exists |-> TRUE,
              batches |-> {b * batchSize : b \in 0 .. ((K \div batchSize) - 1)},
              bal |-> NoBal]
UsedRecord ==
    [from_id |-> 3, to_id |-> 7, from_balance |-> 1000, to_balance |-> 1000,
     amount |-> 998, tso |-> "unix_nano"]
Stores(c) ==
    {[accounts |-> [s \in Shards |-> NoTable], record |-> NoRecord]}
    \cup {[accounts |-> [s \in Shards |-> Seeded(K)], record |-> EmptyRecord] :
             K \in {c.NumAccounts, 200}}
    \cup {[accounts |-> [s \in Shards |->
                           IF s = 0
                           THEN UpdateRows(Seeded(c.NumAccounts), 3, 7, 2, 1998)
                           ELSE Seeded(c.NumAccounts)],
            record |-> [exists |-> TRUE, rows |-> <<UsedRecord>>]]}

\* A run starts with its flags, with TiDBDatabase as main has found it, on
\* one of the stores.
Scenarios(cs) ==
    UNION {{[cfg |-> NewBankCase(c), tidb |-> b, store |-> st] :
               b \in BOOLEAN, st \in Stores(NewBankCase(c))} : c \in cs}

InitWith(scs) ==
    /\ \E sc \in scs :
         /\ cfg = sc.cfg
         /\ TiDBDatabase = sc.tidb
         /\ accounts = sc.store.accounts
         /\ record = sc.store.record
    /\ stopped = 0
    /\ cancelled = FALSE
    /\ proc = [status |-> "running", reason |-> "none"]
    /\ main = StartMain
    /\ ch = OffChannel
    /\ seeders = AllOffSeeders
    /\ verif = AllOffVerifiers
    /\ since = AllWithin
    /\ wk = AllOffWorkers
    /\ begun = 0

Init == InitWith(Scenarios(Configs))

\* The steps of a run in short connection pool mode without long
\* transactions.
Next ==
    \/ Initialize \/ ShardLoop \/ TryDrop \/ CreateTables \/ SeedWait
    \/ Producer
    \/ \E k \in SeederIds : SeederStep(k)
    \/ \E s \in Shards : \E kd \in Kinds : VerifyStep(s, kd)
    \/ \E s \in Shards : TimePasses(s)
    \/ Execute \/ ExecuteReturn
    \/ \E k \in WorkerIds : WorkerStep(k)
    \/ Cancel \/ SignalExit

Spec == Init /\ [][Next]_vars

\* The runs with an unbounded RunWithRetry.
UnboundedConfigs ==
    {[BaseConfig EXCEPT !.RetryLimit = -1, !.NumAccounts = n] : n \in {100, 200}}

\* The seeders take their steps as long as they have one to take (the Go
\* scheduler runs every runnable goroutine).
FairSpec ==
    /\ InitWith(Scenarios(UnboundedConfigs))
    /\ [][Next]_vars
    /\ \A k \in SeederIds : WF_vars(SeederStep(k))

\* Two seeders and two transfer goroutines; two shards.
WideConfigs ==
    {[BaseConfig EXCEPT !.Concurrency = 2], [BaseConfig EXCEPT !.TableNum = 2]}

SpecWide == InitWith(Scenarios(WideConfigs)) /\ [][Next]_vars

\* The steps that long transaction mode adds: the delays.
DelayStep ==
    \/ \E k \in WorkerIds : ExecDelayRead(k) \/ ExecDelayCommit(k)
    \/ \E s \in Shards : \E kd \in Kinds : VerifyDelay(s, kd)

\* Long transaction mode, on TiDB and on an empty store.
LongTxnScenarios ==
    {sc \in Scenarios({[BaseConfig EXCEPT !.EnableLongTxn = TRUE]}) :
        sc.tidb /\ ~sc.store.record.exists}

SpecLongTxn == InitWith(LongTxnScenarios) /\ [][Next \/ DelayStep]_vars

\* Long transaction mode with -concurrency 0: the pool has no limit
\* (SetMaxOpenConns(0)), so the two delayed transfers and the verifications
\* run side by side; without TiDB and on a seeded store without audit rows.
UnlimitedPoolScenarios ==
    {sc \in Scenarios({[BaseConfig EXCEPT !.EnableLongTxn = TRUE,
                                          !.Concurrency = 0]}) :
        /\ ~sc.tidb /\ sc.store.record.exists /\ sc.store.record.rows = <<>>
        /\ TableCount(sc.store.accounts[0]) = sc.cfg.NumAccounts}

\* The plain run on TiDB and on an empty store.
PlainScenarios ==
    {sc \in Scenarios({BaseConfig}) : sc.tidb /\ ~sc.store.record.exists}

SpecDelay ==
    /\ InitWith(UnlimitedPoolScenarios \cup PlainScenarios)
    /\ [][Next \/ DelayStep]_vars

\* The run with long transaction mode on, and the run with it off.
SpecModes ==
    /\ InitWith(LongTxnScenarios \cup PlainScenarios)
    /\ [][Next \/ DelayStep]_vars

\* -accounts 1, on TiDB and on an empty store.
SingleAccountScenarios ==
    {sc \in Scenarios({[BaseConfig EXCEPT !.NumAccounts = 1]}) :
        sc.tidb /\ ~sc.store.record.exists}

SpecSingle ==
    /\ InitWith(PlainScenarios \cup SingleAccountScenarios)
    /\ [][Next]_vars

\* The steps that the two connection modes add: the connections taken per
\* operation.
ConnStep ==
    \/ InitDBConn
    \/ \E k \in WorkerIds : WorkerConn(k)
    \/ \E s \in Shards : \E kd \in Kinds : VerifyConn(s, kd)

\* One-shot mode with a pool of two connections and long connection mode,
\* on TiDB and on an empty store.
ConnScenarios ==
    {sc \in Scenarios({[BaseConfig EXCEPT !.UseShortConnOnce = TRUE,
                                          !.Concurrency = 2],
                       [BaseConfig EXCEPT !.UseLongConn = TRUE]}) :
        sc.tidb /\ ~sc.store.record.exists}

SpecConn == InitWith(ConnScenarios) /\ [][Next \/ ConnStep]_vars

\* A caller that calls Initialize up to MaxCalls times before Execute, on
\* TiDB and on a store without audit rows.
TwiceScenarios ==
    {sc \in Scenarios({BaseConfig}) :
        sc.tidb /\ (sc.store.record.exists => sc.store.record.rows = <<>>)}

SpecTwice == InitWith(TwiceScenarios) /\ [][Next \/ InitializeAgain]_vars

\* Every goroutine that can take a step takes one (the Go scheduler runs
\* every runnable goroutine): the transfer goroutines, the verifications
\* and their log.Fatalf, the seeders, the producer and main.
Scheduling ==
    /\ \A k \in WorkerIds :
         WF_vars(\/ WorkerStep(k) \/ WorkerConn(k)
                 \/ ExecDelayRead(k) \/ ExecDelayCommit(k))
    /\ \A s \in Shards : \A kd \in Kinds :
         WF_vars(VerifyStep(s, kd) \/ VerifyConn(s, kd) \/ VerifyDelay(s, kd))
    /\ \A k \in SeederIds : WF_vars(SeederStep(k))
    /\ WF_vars(Producer)
    /\ WF_vars(\/ Initialize \/ ShardLoop \/ InitDBConn \/ TryDrop
               \/ CreateTables \/ SeedWait \/ Execute \/ ExecuteReturn)

\* No transfer goroutine at all: -concurrency 0 without long transactions.
IdleScenarios ==
    {sc \in Scenarios({[BaseConfig EXCEPT !.Concurrency = 0]}) :
        sc.tidb /\ ~sc.store.record.exists}

\* Long transaction mode, and the run without transfer goroutines, under
\* that scheduling.
LiveSpec ==
    /\ InitWith(LongTxnScenarios \cup IdleScenarios)
    /\ [][Next \/ DelayStep]_vars
    /\ Scheduling

\* Seeding with no, one and two seeding goroutines and with one and two
\* batches, on TiDB and on an empty store.
SeedScenarios ==
    {sc \in Scenarios({[BaseConfig EXCEPT !.Concurrency = c, !.NumAccounts = n] :
                           c \in 0 .. MaxConcurrency, n \in {100, 200}}) :
        sc.tidb /\ ~sc.store.record.exists}

\* The goroutines of the seeding take their steps: the seeding goroutines,
\* the one that sends the jobs, and initDB at wg.Wait.
SeedScheduling ==
    /\ \A k \in SeederIds : WF_vars(SeederStep(k))
    /\ WF_vars(Producer)
    /\ WF_vars(SeedWait)

SpecSeed == InitWith(SeedScenarios) /\ [][Next]_vars /\ SeedScheduling

\* Long connection mode with long transactions, without TiDB and on a seeded
\* store without audit rows: three transfer goroutines and a pool of
\* 2 * Concurrency = 2 connections.
DedicatedLongTxnScenarios ==
    {sc \in Scenarios({[BaseConfig EXCEPT !.UseLongConn = TRUE,
                                          !.EnableLongTxn = TRUE]}) :
        /\ ~sc.tidb /\ sc.store.record.exists /\ sc.store.record.rows = <<>>
        /\ TableCount(sc.store.accounts[0]) = sc.cfg.NumAccounts}

\* One-shot mode with a pool of two connections, on TiDB and on an empty
\* store.
OneShotScenarios ==
    {sc \in Scenarios({[BaseConfig EXCEPT !.UseShortConnOnce = TRUE,
                                          !.Concurrency = 2]}) :
        sc.tidb /\ ~sc.store.record.exists}

\* The connection modes under the scheduling of the goroutines.
SpecPool ==
    /\ InitWith(DedicatedLongTxnScenarios \cup OneShotScenarios)
    /\ [][Next \/ DelayStep \/ ConnStep]_vars
    /\ Scheduling

\* ============================================================ properties

\* C1: for every shard, in every state after the seeding of the shard has
\* completed and while stopped is false, the balances of the shard sum to
\* NumAccounts * 1000.  (startVerify is called for a shard exactly when its
\* seeding has completed or was found complete.)
C1_Conservation ==
    \A s \in 0 .. (cfg.TableNum - 1) :
        (/\ Running /\ stopped = 0
         /\ \E kd \in Kinds : verif[s][kd].pc # "off")
        => TableSum(accounts[s]) = cfg.NumAccounts * 1000

\* C2: a transfer that moves money and commits appends exactly one audit
\* row, carrying the balances of its locking read and the drawn amount, and
\* leaves from_balance - amount and to_balance + amount in the two rows.
C2_CommittedTransfer ==
    [][\A k \in WorkerIds :
         (ExecCommit(k) /\ wk'[k].err = "nil"
          /\ wk[k].fromBalance >= wk[k].amount)
         => LET w == wk[k]
                n == Len(record.rows)
            IN /\ w.fromBalance = Balance(accounts[w.id], w.from)
               /\ w.toBalance = Balance(accounts[w.id], w.to)
               /\ Len(record'.rows) = n + 1
               /\ SubSeq(record'.rows, 1, n) = record.rows
               /\ record'.rows[n + 1].from_id = w.from
               /\ record'.rows[n + 1].to_id = w.to
               /\ record'.rows[n + 1].from_balance = w.fromBalance
               /\ record'.rows[n + 1].to_balance = w.toBalance
               /\ record'.rows[n + 1].amount = w.amount
               /\ Balance(accounts'[w.id], w.from) = w.fromBalance - w.amount
               /\ Balance(accounts'[w.id], w.to) = w.toBalance + w.amount]_vars

\* C2 witness: this run has committed a transfer of 50 (the stores a run
\* starts on hold no such audit row).
C2_Witness ==
    /\ Running /\ record.exists /\ Len(record.rows) >= 1
    /\ record.rows[Len(record.rows)].amount = 50
    /\ \E k \in WorkerIds : wk[k].pc = "loop" /\ wk[k].err = "nil"

\* C3: a transfer whose locking read finds fromBalance < amount issues no
\* UPDATE and no INSERT (it goes from the read to the commit, by way of the
\* delay in delayCommit mode), its commit
\* leaves the account tables and the audit table as they are, and the
\* attempt ends with the result of the commit, nothing being fatal.
C3_InsufficientFunds ==
    [][\A k \in WorkerIds :
         /\ (ExecLockingRead(k) /\ Running' /\ wk'[k].pc # "loop"
             /\ wk'[k].fromBalance < wk'[k].amount)
            => wk'[k].pc \in {"delayCommit", "commit"}
         /\ (wk[k].pc \in {"update", "tso", "insert"})
            => wk[k].fromBalance >= wk[k].amount
         /\ (ExecCommit(k) /\ wk[k].fromBalance < wk[k].amount)
            => /\ UNCHANGED <<accounts, record>>
               /\ Running' /\ wk'[k].pc = "loop"]_vars

\* C3 witness: a transfer of 50 from a balance of 2 stands before its commit.
C3_Witness ==
    \E k \in WorkerIds :
        /\ wk[k].pc = "commit" /\ wk[k].fromBalance = 2 /\ wk[k].amount = 50
        /\ Balance(accounts[wk[k].id], wk[k].from) = 2

\* C4 as stated: on a freshly seeded single shard of 1000 accounts the
\* committed transfer from 3 to 7 of 50 leaves 950 and 1050, a shard sum of
\* 1,000,000, and exactly one audit row (3, 7, 950, 1050, 50, token).
C4_ScenarioAsStated ==
    [][\A k \in WorkerIds :
         (/\ ExecCommit(k) /\ wk'[k].err = "nil"
          /\ cfg.NumAccounts = 1000 /\ cfg.TableNum = 1
          /\ accounts[0] = Seeded(1000) /\ record = EmptyRecord
          /\ wk[k].from = 3 /\ wk[k].to = 7 /\ wk[k].amount = 50)
         => /\ Balance(accounts'[0], 3) = 950
            /\ Balance(accounts'[0], 7) = 1050
            /\ TableSum(accounts'[0]) = 1000000
            /\ Len(record'.rows) = 1
            /\ record'.rows[1].from_id = 3 /\ record'.rows[1].to_id = 7
            /\ record'.rows[1].from_balance = 950
            /\ record'.rows[1].to_balance = 1050
            /\ record'.rows[1].amount = 50]_vars

\* C4 amended: the same scenario, with the audit row the code writes: it
\* carries the balances read before the transfer, (3, 7, 1000, 1000, 50,
\* token).
C4_ScenarioAmended ==
    [][\A k \in WorkerIds :
         (/\ ExecCommit(k) /\ wk'[k].err = "nil"
          /\ cfg.NumAccounts = 1000 /\ cfg.TableNum = 1
          /\ accounts[0] = Seeded(1000) /\ record = EmptyRecord
          /\ wk[k].from = 3 /\ wk[k].to = 7 /\ wk[k].amount = 50)
         => /\ Balance(accounts'[0], 3) = 950
            /\ Balance(accounts'[0], 7) = 1050
            /\ TableSum(accounts'[0]) = 1000000
            /\ Len(record'.rows) = 1
            /\ record'.rows[1].from_id = 3 /\ record'.rows[1].to_id = 7
            /\ record'.rows[1].from_balance = 1000
            /\ record'.rows[1].to_balance = 1000
            /\ record'.rows[1].amount = 50
            /\ record'.rows[1].tso = wk[k].tso]_vars

\* C4 witness: the scenario has run on 1000 accounts.
C4_Witness ==
    /\ cfg.NumAccounts = 1000 /\ cfg.TableNum = 1
    /\ TableCount(accounts[0]) = 1000
    /\ accounts[0].bal = (3 :> 950 @@ 7 :> 1050)
    /\ Len(record.rows) = 1
    /\ record.rows[1].from_balance = 1000 /\ record.rows[1].to_balance = 1000
    /\ record.rows[1].amount = 50

\* C5: initialization of a shard whose table does not hold NumAccounts rows
\* drops the account table and the audit table, and when its seeding
\* completes without cancellation the shard holds exactly the rows
\* 0 .. NumAccounts-1, each with balance 1000.
C5_ReseedsAll ==
    [][/\ (/\ TryDrop /\ main'.pc = "create"
           /\ accounts[main.i].exists)
          => (~accounts'[main.i].exists /\ ~record'.exists)
       /\ (SeedWait /\ ~cancelled)
          => LET t == accounts[main.i]
                 ids == UNION {b .. (b + batchSize - 1) : b \in t.batches}
             IN /\ cfg.NumAccounts >= 1 /\ cfg.Concurrency >= 1
                /\ t.exists
                /\ ids = 0 .. (cfg.NumAccounts - 1)
                /\ \A id \in ids : Balance(t, id) = 1000]_vars

\* C6: when the account table of the shard exists and holds NumAccounts
\* rows, tryDrop drops nothing and initDB creates and inserts nothing: the
\* tables are left as they are and the next step is the verification.
C6_ResumeIdempotent ==
    [][(/\ TryDrop /\ accounts[main.i].exists
        /\ TableCount(accounts[main.i]) = cfg.NumAccounts)
       => /\ UNCHANGED <<accounts, record, ch, seeders>>
          /\ Running' => /\ main'.pc = "verify0"
                         /\ verif'[main.i]["initial"].pc \in {"conn", "begin"}]_vars

\* C6 witness: the shard a transfer has used is resumed: its verification
\* has begun, no seeding was started and the table is as it was.
C6_Witness ==
    /\ main.pc = "verify0" /\ main.i = 0
    /\ ch = OffChannel /\ seeders = AllOffSeeders
    /\ accounts[0].bal = (3 :> 2 @@ 7 :> 1998)
    /\ record.rows = <<UsedRecord>>
    /\ verif[0]["initial"].pc = "sum"

\* C7: with a bound N >= 0 and an operation that fails at every call,
\* RunWithRetry calls it exactly N times and then returns the failure (which
\* initDB makes fatal).
C7_ExhaustedFails ==
    [][\A k \in SeederIds :
         (/\ RunWithRetry(k) /\ cfg.RetryLimit >= 0
          /\ seeders[k].i >= cfg.RetryLimit)
         => /\ seeders[k].calls = cfg.RetryLimit
            /\ proc'.status = "aborted" /\ proc'.reason = "exec insert"]_vars

\* C8: with a negative bound RunWithRetry never returns a failure; it
\* returns only from a call that succeeded or from a backoff that saw the
\* cancellation; a call that succeeds returns at once (only a failed call
\* leads to the backoff); and once cancelled it returns.
C8_Unbounded ==
    /\ [](cfg.RetryLimit < 0 => proc.reason # "exec insert")
    /\ [][\A k \in SeederIds :
            (/\ cfg.RetryLimit < 0
             /\ seeders[k].pc \in {"retry", "backoff"}
             /\ seeders'[k].pc = "loop")
            => \/ /\ seeders[k].pc = "retry"
                  /\ seeders'[k].err = "nil" /\ seeders'[k].ret = "nil"
                  /\ \/ seeders'[k].calls = seeders[k].calls + 1
                     \/ seeders[k].calls = MaxCount
               \/ /\ seeders[k].pc = "backoff" /\ cancelled
                  /\ seeders'[k].ret = "nil"]_vars
    /\ [][\A k \in SeederIds :
            (/\ cfg.RetryLimit < 0 /\ seeders[k].pc = "retry"
             /\ seeders'[k].pc = "backoff")
            => seeders'[k].err # "nil"]_vars
    /\ \A k \in SeederIds :
         (cfg.RetryLimit < 0 /\ cancelled
          /\ seeders[k].pc \in {"retry", "backoff"})
         ~> (seeders[k].pc \notin {"retry", "backoff"})

\* C8 witness: with a negative bound a call has succeeded after more failed
\* calls than any bound of the configurations allows.
C8_Witness ==
    \E k \in SeederIds :
        /\ cfg.RetryLimit < 0 /\ seeders[k].pc = "loop"
        /\ seeders[k].ret = "nil" /\ seeders[k].calls = MaxCount
        /\ seeders[k].i = MaxCount

\* C9: when the INSERT of a seeder fails with a duplicate entry error,
\* RunWithRetry gets a success: it returns nil at once, without backoff,
\* without another call and whatever the count of calls, and nothing is
\* fatal.
C9_DuplicateAbsorbed ==
    [][\A k \in SeederIds :
         (/\ RunWithRetry(k) /\ seeders'[k].execErr = "dup")
         => /\ Running'
            /\ seeders'[k].pc = "loop" /\ seeders'[k].ret = "nil"
            /\ seeders'[k].err = "nil"
            /\ seeders'[k].i = seeders[k].i
            /\ UNCHANGED <<accounts, record>>]_vars

\* C9 witness: the last call allowed by the bound got a duplicate entry
\* error and RunWithRetry returned nil.
C9_Witness ==
    \E k \in SeederIds :
        /\ seeders[k].execErr = "dup" /\ seeders[k].ret = "nil"
        /\ seeders[k].pc = "loop"
        /\ cfg.RetryLimit = 2 /\ seeders[k].calls = 2

\* What log.Fatalf does to the process.
Fatal(reason) == proc.status = "aborted" /\ proc.reason = reason

\* C10: a verification that has read a sum other than NumAccounts * 1000
\* never returns to its caller: its next steps lead to stopped being set and
\* the process aborting.
C10_MismatchIsFatal ==
    [][\A s \in Shards : \A kd \in Kinds :
         /\ (/\ VerifyTso(s, kd) \/ VerifyCommit(s, kd)
             /\ verif[s][kd].total # cfg.NumAccounts * 1000)
            => \/ verif'[s][kd] = [verif[s][kd] EXCEPT !.pc = "commit"]
               \/ stopped' = 1 /\ verif'[s][kd].pc = "fatalMismatch"
         /\ (VerifyFatal(s, kd) /\ verif[s][kd].pc = "fatalMismatch")
            => Fatal("total mismatch")']_vars

C12_StoppedMonotonic ==
    /\ stopped = 0
    /\ [][/\ stopped \in {0, 1} /\ stopped' \in {0, 1}
          /\ stopped = 1 => stopped' = 1
          /\ stopped' # stopped
             => \E s \in Shards : \E kd \in Kinds :
                  \/ /\ VerifyCommit(s, kd)
                     /\ verif[s][kd].total # cfg.NumAccounts * 1000
                     /\ verif'[s][kd].pc = "fatalMismatch"
                  \/ /\ kd = "fast" /\ Expired(s)
                     /\ \/ VerifyConn(s, kd) \/ VerifyBegin(s, kd)
                        \/ VerifyDelay(s, kd) \/ VerifySum(s, kd)
                        \/ VerifyTso(s, kd)
                     /\ verif'[s][kd].pc = "fatalTimeout"
          /\ (\/ \E k \in WorkerIds :
                    \/ WorkerStep(k) \/ WorkerConn(k)
                    \/ ExecDelayRead(k) \/ ExecDelayCommit(k)
              \/ \E k \in SeederIds : SeederStep(k)
              \/ Producer \/ Initialize \/ ShardLoop \/ InitDBConn
              \/ TryDrop \/ CreateTables \/ SeedWait
              \/ Execute \/ ExecuteReturn \/ Cancel \/ SignalExit)
             => stopped' = stopped]_vars

\* C12 witness: a fast check has found a wrong sum and set stopped while a
\* transfer attempt is in flight and the process has not exited yet.
C12_Witness ==
    /\ Running /\ stopped = 1
    /\ \E s \in Shards : verif[s]["fast"].pc = "fatalMismatch"
    /\ \E k \in WorkerIds : wk[k].pc \notin {"off", "exited", "start", "loop"}

\* C13: once stopped is 1 no transfer goroutine launches an attempt or
\* begins a transaction, and when stopped is set while Execute waits for its
\* goroutines, they all return and Execute returns.
C13_StoppedDrainsWorkers ==
    /\ [][stopped = 1
          => \A k \in WorkerIds :
               /\ ~(WorkerLoop(k) /\ wk'[k].pc \in {"conn", "move"})
               /\ ~(MoveMoney(k) /\ wk'[k].pc \in {"delayRead", "read"})]_vars
    /\ (stopped = 1 /\ main.pc = "execWait")
       ~> (proc.status = "exited" /\ proc.reason = "execute returned")

\* C14: a transfer whose Begin, locking read, UPDATE, token read, INSERT or
\* Commit returns an error leaves the store and stopped as they were and the
\* process running, keeps nothing of the transfer, and puts its goroutine
\* back at the loop head, whose next step, unless the run was cancelled or
\* stopped, launches an attempt with a draw of its own.
C14_FailureIsDropped ==
    [][\A k \in WorkerIds :
         /\ (/\ \/ MoveMoney(k) \/ ExecLockingRead(k) \/ ExecUpdate(k)
                \/ ExecTso(k) \/ ExecInsert(k) \/ ExecCommit(k)
             /\ wk'[k].err = "err")
            => /\ Running' /\ stopped' = stopped
               /\ accounts' = accounts /\ record' = record
               /\ wk'[k].pc = "loop"
               /\ wk'[k].from = OffWorker.from /\ wk'[k].to = OffWorker.to
               /\ wk'[k].amount = OffWorker.amount
         /\ (/\ WorkerLoop(k) /\ wk[k].err = "err"
             /\ ~cancelled /\ stopped = 0)
            => /\ wk'[k].pc \in {"conn", "move"}
               /\ wk'[k].from = OffWorker.from /\ wk'[k].to = OffWorker.to]_vars

\* C14 witness: after a transfer whose Commit failed, the goroutine has
\* launched its next attempt and drawn another transfer.
C14_Witness ==
    /\ Running /\ stopped = 0 /\ begun = 2
    /\ \E k \in WorkerIds : wk[k].pc = "read" /\ wk[k].from = 7
    /\ \A s \in Shards : accounts[s].exists => accounts[s].bal = NoBal
    /\ record.exists /\ record.rows = <<>>

\* C15: a transfer goes on to its UPDATE, its INSERT or its Commit only with
\* a locking read that returned exactly the rows of from and to; a locking
\* read ends in an ordinary error only when the query itself failed, and
\* otherwise either hands over exactly those two rows or aborts the process
\* on the spot, the store untouched.
C15_MalformedReadIsFatal ==
    /\ [](\A k \in WorkerIds :
            wk[k].pc \in {"update", "tso", "insert", "delayCommit", "commit"}
            => /\ wk[k].rows = {wk[k].from, wk[k].to}
               /\ Cardinality(wk[k].rows) = 2)
    /\ [][\A k \in WorkerIds :
            ExecLockingRead(k)
            => /\ accounts' = accounts /\ record' = record
               /\ \/ /\ wk'[k].pc \in {"update", "delayCommit", "commit"}
                     /\ HasRow(accounts[wk[k].id], wk[k].from)
                     /\ HasRow(accounts[wk[k].id], wk[k].to)
                  \/ wk'[k] = AttemptEnd("err")
                  \/ Fatal("invalid count")' \/ Fatal("unexpected account")'
               /\ (~ HasRow(accounts[wk[k].id], wk[k].from)
                   \/ ~ HasRow(accounts[wk[k].id], wk[k].to))
                  => \/ wk'[k] = AttemptEnd("err")
                     \/ Fatal("invalid count")'
                     \/ Fatal("unexpected account")']_vars

\* C15 witness: a locking read that returned fewer than two rows has aborted
\* the process, and the store holds no write of a transfer.
C15_Witness ==
    /\ Fatal("invalid count")
    /\ \A s \in Shards : accounts[s].bal = NoBal
    /\ record.rows = <<>>

\* C16: once the context is cancelled, the steps in which Initialize gets a
\* connection, tests the context or has waited for the seeders leave the
\* process running (Initialize returns nil and main goes on to Execute,
\* never to its log.Fatalf), and Execute returns once its goroutines have
\* returned, ending the process without an error.
C16_CancelIsNotAnError ==
    [][/\ (cancelled /\ (Initialize \/ ShardLoop \/ InitDBConn \/ SeedWait))
          => Running'
       /\ (cancelled /\ ShardLoop) => main'.pc = "execute"
       /\ (cancelled /\ ExecuteReturn)
          => proc' = [status |-> "exited", reason |-> "execute returned"]]_vars

\* C17: Execute returns only when the context is cancelled or stopped is
\* set, and once the context is cancelled while Execute waits for its
\* goroutines, Execute returns (or the process has ended).
C17_ExecuteBlocks ==
    /\ [][ExecuteReturn => (cancelled \/ stopped # 0)]_vars
    /\ (cancelled /\ main.pc = "execWait") ~> ~Running

\* C18: when Initialize returns in a run that was not cancelled, every shard
\* holds NumAccounts rows whose balances sum to NumAccounts * 1000, its fast
\* cadence runs, and it has one set of cadences, however many times
\* Initialize was called.
C18_InitializeReady ==
    [][(ShardLoop /\ main'.pc = "execute" /\ ~cancelled)
       => \A s \in 0 .. (cfg.TableNum - 1) :
            /\ accounts[s].exists
            /\ TableCount(accounts[s]) = cfg.NumAccounts
            /\ TableSum(accounts[s]) = cfg.NumAccounts * 1000
            /\ verif[s]["fast"].pc \notin {"off", "exited"}
            /\ main.sets[s] = 1]_vars

\* C19: with a bound RetryLimit >= 0 the insert of a batch is called at most
\* RetryLimit times; RunWithRetry comes back from its loop with the bound
\* used up only to abort the process; and the verification of a shard that
\* was seeded is started only when every batch of the shard is in the table.
C19_SeedingRetriesThenAborts ==
    /\ [](\A k \in SeederIds :
            cfg.RetryLimit >= 0 => seeders[k].calls <= cfg.RetryLimit)
    /\ [][\A k \in SeederIds :
            (/\ RunWithRetry(k) /\ cfg.RetryLimit >= 0
             /\ ~RetryContinues(cfg.RetryLimit, seeders[k].i))
            => Fatal("exec insert")']_vars
    /\ [][(SeedWait /\ main'.pc = "verify0")
          => \A b \in 0 .. (jobCount - 1) :
               (b * batchSize) \in accounts[main.i].batches]_vars

\* C20: once the context is cancelled, no step of the seeding of a shard (a
\* seeder getting its connection, testing the context, receiving a job,
\* calling the insert or leaving its backoff, the producer, the wait for the
\* seeders) aborts the process; and initDB, when the seeders have returned,
\* returns to Initialize's loop without starting a verification or a
\* cadence, whatever number of rows the shard holds.
C20_CancelledSeeding ==
    [][cancelled
       => /\ (\/ Producer \/ SeedWait
              \/ \E k \in SeederIds :
                   \/ SeederStart(k) \/ SeederLoop(k) \/ SeederRecv(k)
                   \/ Backoff(k)
                   \/ /\ RunWithRetry(k)
                      /\ RetryContinues(cfg.RetryLimit, seeders[k].i))
             => Running'
          /\ SeedWait
             => /\ main'.pc = "shardLoop" /\ main'.sets = main.sets
                /\ verif' = verif]_vars

C22_RetryReturns ==
    [][\A k \in SeederIds :
         /\ (/\ RunWithRetry(k) /\ Running'
             /\ RetryContinues(cfg.RetryLimit, seeders[k].i)
             /\ seeders'[k].err = "nil")
            => /\ seeders'[k].pc = "loop" /\ seeders'[k].ret = "nil"
               /\ seeders'[k].i = seeders[k].i
         /\ (RunWithRetry(k) /\ seeders'[k].pc = "backoff")
            => seeders'[k].err # "nil"
         /\ (Backoff(k) /\ cancelled)
            => /\ Running'
               /\ seeders'[k].pc = "loop" /\ seeders'[k].ret = "nil"
               /\ seeders'[k].err = seeders[k].err
               /\ seeders'[k].calls = seeders[k].calls]_vars

\* C22 witness: the only call the bound allows has failed, the wait after it
\* saw the cancellation, and RunWithRetry has returned nil.
C22_Witness ==
    \E k \in SeederIds :
        /\ cancelled /\ cfg.RetryLimit = seeders[k].calls
        /\ seeders[k].calls > 0
        /\ seeders[k].pc = "loop" /\ seeders[k].err = "err"
        /\ seeders[k].ret = "nil"

\* C23: a step of a delay is a step that changes a goroutine that is in the
\* delay.  A delay (of a transfer or of a delayed verification) returns nil
\* only in a pass of its ticker's case in which stopped is 0 and more ticks
\* than its target have gone by, the target being at least the minimum and
\* below the maximum of the window; a pass made with stopped set returns an
\* error, also when the target has gone by; a pass made with the context
\* cancelled returns an error unless the ticker's case is the one taken; and
\* a cancelled context always leaves the select the case that returns the
\* error.
C23_Delay ==
    /\ [][\A k \in WorkerIds :
            LET w == wk[k]
                step == /\ w.pc \in {"delayRead", "delayCommit"}
                        /\ wk'[k] # w /\ Running'
                ended == wk'[k] = AttemptEnd("err")
                nil == wk'[k].pc \in {"read", "commit"}
                waits == /\ wk'[k].pc = w.pc
                         /\ wk'[k].elapsed = w.elapsed + 1
            IN /\ (step /\ nil)
                  => /\ stopped = 0
                     /\ minDelayDuration <= w.target
                     /\ w.target < maxDelayDuration
                     /\ w.elapsed + 1 > w.target
               /\ (step /\ stopped # 0) => ended
               /\ (step /\ cancelled /\ ~ended)
                  => /\ stopped = 0
                     /\ nil \/ (waits /\ wk'[k].elapsed <= wk'[k].target)
               /\ step => (ended \/ nil \/ waits)]_vars
    /\ [][\A s \in Shards : \A kd \in Kinds :
            LET v == verif[s][kd]
                step == v.pc = "delay" /\ verif'[s][kd] # v /\ Running'
            IN /\ (step /\ verif'[s][kd].pc = "sum")
                  => /\ stopped = 0
                     /\ v.target \in DelayTargets
                     /\ v.elapsed + 1 > v.target
               /\ (step /\ stopped # 0) => verif'[s][kd].pc = "wait"]_vars
    /\ [](\A k \in WorkerIds :
            (cancelled /\ wk[k].pc \in {"delayRead", "delayCommit"})
            => \A d \in TargetsOf(wk[k]) : "err" \in DelaySelect(wk[k].elapsed, d))

\* C23 witness: a delay before commit has waited out its target, and stopped
\* was set before its next tick.
C23_Witness ==
    \E k \in WorkerIds :
        /\ Running /\ stopped = 1
        /\ wk[k].pc = "delayCommit"
        /\ wk[k].target >= minDelayDuration
        /\ wk[k].elapsed = wk[k].target

\* C24: the order of the steps of one transfer.  The delayed-read variant
\* runs the delay right after Begin and before the locking read; the
\* delayed-commit variant runs it after the locking read (and after the
\* UPDATE and the INSERT INTO record, when the transfer makes them) and
\* right before Commit; the plain variant never runs a delay; and every
\* variant goes Begin, locking read, (UPDATE, token, INSERT), Commit.
C24_StepOrder ==
    [][\A k \in WorkerIds :
         LET a == wk[k].pc
             b == wk'[k].pc
             mode == WorkerMode(k)
             moved == a # b /\ b # "loop" /\ Running'
         IN /\ (a \in {"delayRead", "delayCommit"}
                  => mode = (IF a = "delayRead" THEN delayRead ELSE delayCommit))
            /\ (moved /\ a = "move"
                  => b = (IF mode = delayRead THEN "delayRead" ELSE "read"))
            /\ (moved /\ a = "delayRead" => b = "read")
            /\ (moved /\ a = "read"
                  => b \in {"update",
                            IF mode = delayCommit THEN "delayCommit" ELSE "commit"})
            /\ (moved /\ a = "update"
                  => b = (IF TiDBDatabase THEN "tso" ELSE "insert"))
            /\ (moved /\ a = "tso" => b = "insert")
            /\ (moved /\ a = "insert"
                  => b = (IF mode = delayCommit THEN "delayCommit" ELSE "commit"))
            /\ (moved /\ a = "delayCommit" => b = "commit")
            /\ (a = "commit" /\ a # b /\ Running' => b = "loop")
            /\ (moved /\ b = "read" => a \in {"move", "delayRead"})
            /\ (moved /\ b = "commit"
                  => a \in {"read", "insert", "delayCommit"})]_vars

\* The delayed-commit transfer has made its UPDATE and its INSERT and has
\* waited out its delay: Commit is what comes next.
C24_Witness ==
    \E k \in WorkerIds :
        /\ Running /\ WorkerMode(k) = delayCommit /\ wk[k].pc = "commit"
        /\ Sufficient(wk[k].fromBalance, wk[k].amount) /\ wk[k].tso # "none"

\* C25: with long transaction mode off, Execute runs the Concurrency plain
\* goroutines only and a shard has the fast cadence only, so that no
\* transfer and no verification is ever in a delay; with it on, the
\* delayRead and the delayCommit goroutine and the delayed cadence of each
\* shard run beside the plain goroutines and the fast cadence.
C25_Flavours ==
    LET started == {k \in WorkerIds : wk[k].pc # "off"}
        IsPlain(k) == k <= cfg.Concurrency /\ WorkerMode(k) = noDelay
    IN Running =>
        /\ \A k \in started \cap (1 .. cfg.Concurrency) : WorkerMode(k) = noDelay
        /\ (~cfg.EnableLongTxn =>
              /\ \A k \in started : IsPlain(k)
              /\ \A k \in WorkerIds : wk[k].pc \notin {"delayRead", "delayCommit"}
              /\ \A s \in Shards :
                   /\ verif[s]["delayed"].pc = "off"
                   /\ \A kd \in Kinds : verif[s][kd].pc # "delay")
        /\ (main.pc = "execWait" =>
              /\ 1 .. cfg.Concurrency \subseteq started
              /\ (cfg.EnableLongTxn =>
                    /\ \E k \in started : WorkerMode(k) = delayRead
                    /\ \E k \in started : WorkerMode(k) = delayCommit
                    /\ Cardinality(started) = cfg.Concurrency + 2))
        /\ \A s \in Shards :
             /\ verif[s]["fast"].pc # "delay" /\ verif[s]["initial"].pc # "delay"
             /\ (cfg.EnableLongTxn =>
                   (verif[s]["fast"].pc = "off" <=> verif[s]["delayed"].pc = "off"))

\* Long transaction mode: a plain transfer is at its Commit while the two
\* delayed goroutines and both cadences of shard 0 are running.
C25_Witness ==
    /\ Running /\ cfg.EnableLongTxn /\ cfg.Concurrency >= 1
    /\ wk[1].pc = "commit" /\ WorkerMode(1) = noDelay
    /\ \A k \in 2 .. 3 : wk[k].pc \notin {"off", "exited"}
    /\ verif[0]["fast"].pc = "wait" /\ verif[0]["delayed"].pc = "wait"

\* C26: a transfer that has reached Begin has from # to, from and to in
\* 0 .. NumAccounts - 1, its shard in 0 .. TableNum - 1 and its amount in
\* 0 .. 998; and whatever NumAccounts >= 1, the loop that draws again on
\* from = to has a draw that ends it.
C26_DrawFinishes ==
    \A k \in WorkerIds :
        LET w == wk[k] IN
        /\ (Running /\ w.pc \in {"delayRead", "read", "update", "tso", "insert",
                                 "delayCommit", "commit"}
              => /\ w.from # w.to
                 /\ w.from \in 0 .. (cfg.NumAccounts - 1)
                 /\ w.to \in 0 .. (cfg.NumAccounts - 1)
                 /\ w.id \in 0 .. (cfg.TableNum - 1)
                 /\ w.amount \in 0 .. (AmountLimit - 1))
        /\ (Running /\ w.pc = "move" /\ cfg.NumAccounts >= 1 => Draws # {})

\* C27: an audit row is written only by a transfer that moves money: the
\* commit that adds a row to record changes the balance of the row's from
\* account and of its to account, whatever amount in 0 .. 998 was drawn.
C27_AuditMeansMoved ==
    [][(record.exists /\ record'.exists
        /\ Len(record'.rows) > Len(record.rows))
         => LET r == record'.rows[Len(record'.rows)] IN
            \E s \in 0 .. (cfg.TableNum - 1) :
                /\ Balance(accounts'[s], r.from_id) # Balance(accounts[s], r.from_id)
                /\ Balance(accounts'[s], r.to_id) # Balance(accounts[s], r.to_id)]_vars

\* C28: `start` of a shard is taken when its cadences are started, is set
\* again only by a verification of the fast cadence that returns nil, and
\* no failed fast verification, no step of the initial verification and no
\* result of the delayed cadence changes it; an error that the delayed
\* cadence's verify returns neither sets stopped nor ends the process.
C28_WatchdogMarker ==
    [][\A s \in Shards :
         LET fast == verif[s]["fast"]
             slow == verif[s]["delayed"]
             first == verif[s]["initial"]
             check == cfg.NumAccounts * 1000
             fastNil == /\ fast.pc = "commit" /\ fast.total = check
                        /\ verif'[s]["fast"].pc = "wait"
             timePasses == /\ since[s] = "within" /\ since'[s] = "beyond"
                           /\ verif' = verif
         IN Running' =>
            /\ (fast.pc = "off" /\ verif'[s]["fast"].pc # "off"
                  => since'[s] = "within" /\ first.pc # "off")
            /\ (since'[s] # since[s] => fastNil \/ timePasses)
            /\ (fastNil => since'[s] = "within")
            /\ (verif'[s]["fast"] # fast /\ ~fastNil => since'[s] = since[s])
            /\ (verif'[s]["initial"] # first => since'[s] = since[s])
            /\ (verif'[s]["delayed"] # slow /\ slow.pc # "off"
                  => /\ since'[s] = since[s]
                     /\ (stopped' # stopped
                           => slow.pc = "commit" /\ slow.total # check))]_vars
    /\ [](\A s \in Shards : verif[s]["delayed"].pc # "fatalTimeout")

\* More than defaultVerifyTimeout after the last success, the fast
\* verification of shard 0 has read the right total and the delayed one is
\* in its delay: the return of the fast one sets `start` again.
C28_Witness ==
    /\ Running /\ since[0] = "beyond"
    /\ verif[0]["fast"].pc = "commit"
    /\ verif[0]["fast"].total = cfg.NumAccounts * 1000
    /\ verif[0]["delayed"].pc = "delay"

\* C29: in one-shot mode every operation takes a connection of its own and
\* gives it back when the operation is over: a transfer goroutine holds one
\* only inside an attempt, a verification only while it runs, a seeder
\* never across two passes of insertF, and the connection that initDB has
\* taken serves one statement of the initialization (the probe of tryDrop)
\* and no second one.
C29_OneShotPerOperation ==
    (Running /\ cfg.UseShortConnOnce) =>
        /\ \A k \in WorkerIds :
             wk[k].conn => wk[k].pc \in {"move", "delayRead", "read", "update",
                                         "tso", "insert", "delayCommit", "commit"}
        /\ \A s \in Shards : \A kd \in Kinds :
             verif[s][kd].conn
                => verif[s][kd].pc \in {"begin", "delay", "sum", "tso", "commit",
                                        "fatalMismatch"}
        /\ \A k \in SeederIds : ~seeders[k].conn
        /\ ~main.conn
        /\ (main.base => main.pc = "tryDrop")

C31_AttemptIsAtomic ==
    [][\A k \in WorkerIds :
         LET w == wk[k]
             inTx == w.pc \in {"delayRead", "read", "update", "tso", "insert",
                               "delayCommit", "commit"}
             acts == inTx /\ wk'[k] # w /\ Running'
             added == /\ record.exists /\ record'.exists
                      /\ record'.rows = Append(record.rows, AuditRow(w))
         IN /\ (acts /\ wk'[k].err = "err"
                  => accounts' = accounts /\ record' = record)
            /\ (acts /\ w.pc # "commit"
                  => accounts' = accounts /\ record' = record)
            /\ (acts /\ accounts' # accounts
                  => /\ added
                     /\ accounts' = [accounts EXCEPT ![w.id] = UpdatedTable(@, w)])
            /\ (acts /\ record' # record
                  => /\ added
                     /\ accounts' = [accounts EXCEPT ![w.id] = UpdatedTable(@, w)])]_vars

\* The delayed-commit transfer has issued its UPDATE and its INSERT for an
\* amount above zero, and the stop flag is set while it is in its delay:
\* the next tick ends the attempt with an error.
C31_Witness ==
    \E k \in WorkerIds :
        /\ Running /\ stopped = 1 /\ wk[k].pc = "delayCommit"
        /\ wk[k].amount > 0 /\ Sufficient(wk[k].fromBalance, wk[k].amount)
        /\ wk[k].tso # "none"

\* C32: no balance is below zero, in the store and in what a transfer has
\* written and not yet committed: the debit is made only when the balance
\* read under the lock is at least the amount.
C32_NonNegative ==
    /\ \A s \in Shards : \A i \in DOMAIN accounts[s].bal : accounts[s].bal[i] >= 0
    /\ \A k \in WorkerIds :
         wk[k].pc \in {"update", "tso", "insert"}
            => wk[k].fromBalance - wk[k].amount >= 0

\* Two transfer goroutines, and an account that a transfer of 998 has
\* brought down to 2: a goroutine has read that 2 under the lock for another
\* transfer of 998 and goes to Commit without an UPDATE.
C32_Witness ==
    \E k \in WorkerIds :
        /\ Running /\ cfg.Concurrency = 2 /\ begun = MaxTransfers
        /\ wk[k].pc = "commit" /\ wk[k].fromBalance = 2 /\ wk[k].amount = 998
        /\ Balance(accounts[wk[k].id], wk[k].from) = 2
        /\ Len(record.rows) >= 1

\* C33: the Commit of a transfer that moves money changes the balance of
\* the rows from and to of its shard and nothing else in the account tables
\* (no other row, no other shard, no row added or removed), and appends one
\* row to record, leaving the rows that were there.
C33_TransferFrame ==
    [][\A k \in WorkerIds :
         LET w == wk[k]
             commits == /\ w.pc = "commit" /\ wk'[k] # w /\ Running'
                        /\ (accounts' # accounts \/ record' # record)
         IN commits =>
              /\ \A s \in Shards \ {w.id} : accounts'[s] = accounts[s]
              /\ accounts'[w.id].exists = accounts[w.id].exists
              /\ accounts'[w.id].batches = accounts[w.id].batches
              /\ \A i \in (DOMAIN accounts[w.id].bal) \cup (DOMAIN accounts'[w.id].bal) :
                    i \notin {w.from, w.to}
                       => Balance(accounts'[w.id], i) = Balance(accounts[w.id], i)
              /\ record'.exists = record.exists
              /\ Len(record'.rows) = Len(record.rows) + 1
              /\ SubSeq(record'.rows, 1, Len(record.rows)) = record.rows]_vars

\* Two shards: a transfer has been committed on shard 1 after one on shard
\* 0, whose balances and audit row are still there.
C33_Witness ==
    /\ Running /\ cfg.TableNum = 2 /\ Len(record.rows) = 2
    /\ DOMAIN accounts[0].bal # {} /\ DOMAIN accounts[1].bal # {}
    /\ \E k \in WorkerIds : wk[k].pc = "loop" /\ wk[k].err = "nil"

C35_VerifyAfterSeeding ==
    Running =>
      \A s \in 0 .. (cfg.TableNum - 1) :
        /\ (main.i = s /\ main.pc \in {"initConn", "tryDrop", "create", "seedWait"}
              => \A kd \in Kinds : verif[s][kd].pc = "off")
        /\ (verif[s]["initial"].pc # "off"
              => /\ main.i = s /\ main.pc = "verify0"
                 /\ \A k \in SeederIds : seeders[k].pc \in {"off", "done"}
                 /\ verif[s]["fast"].pc = "off" /\ verif[s]["delayed"].pc = "off")
        /\ (verif[s]["fast"].pc # "off" \/ verif[s]["delayed"].pc # "off"
              => main.i > s)
        /\ (\E k \in SeederIds : seeders[k].pc \notin {"off", "done"})
              => (main.pc = "seedWait" /\ \A kd \in Kinds : verif[main.i][kd].pc = "off")
        /\ main.sets[s] <= 1

\* Two shards: the fast verification of shard 0 reads the sum while the
\* seeding goroutines of shard 1 insert.
C35_Witness ==
    /\ Running /\ cfg.TableNum = 2 /\ main.i = 1 /\ main.pc = "seedWait"
    /\ verif[0]["fast"].pc = "sum"
    /\ \E k \in SeederIds : seeders[k].pc = "retry"

\* C36: the offsets sent on the job channel are exactly the multiples of
\* batchSize below NumAccounts, two batches share no id, each offset is
\* received by one seeding goroutine, and when the seeding of a shard ends
\* without cancellation none is left on the channel.
C36_SeedingQueue ==
    /\ [](LET pushed == {j * batchSize : j \in 0 .. (ch.next - 1)} IN
          Running =>
            /\ \A a \in pushed : a < cfg.NumAccounts
            /\ \A a, b \in pushed : a # b => (a + batchSize <= b \/ b + batchSize <= a)
            /\ (ch.producer = "done" /\ ~cancelled
                  => \A j \in 0 .. (cfg.NumAccounts - 1) :
                        j % batchSize = 0 => j \in pushed))
    /\ [][\A k \in SeederIds :
            (seeders[k].pc = "recv" /\ seeders'[k].pc = "retry")
               => /\ ch.buf # <<>>
                  /\ seeders'[k].startIndex = Head(ch.buf)
                  /\ ch'.buf = Tail(ch.buf)
                  /\ \A j \in SeederIds \ {k} : seeders'[j] = seeders[j]]_vars
    /\ [][(main.pc = "seedWait" /\ main'.pc # "seedWait" /\ Running' /\ ~cancelled)
            => ch.buf = <<>> /\ ch.producer = "done"]_vars

\* C37: the seeding of a shard reaches its barrier: every seeding goroutine
\* and the goroutine that sends the jobs return, and wg.Wait of initDB
\* returns (or log.Fatalf has ended the process), whether the channel is
\* drained or the context is cancelled in between, and with no seeding
\* goroutine at all.
C37_SeedingCompletes ==
    /\ (main.pc = "seedWait") ~> (~Running \/ main.pc # "seedWait")
    /\ (ch.producer = "run") ~> (~Running \/ ch.producer = "done")
    /\ \A k \in SeederIds :
         (seeders[k].pc \notin {"off", "done"})
            ~> (~Running \/ seeders[k].pc \in {"off", "done"})

\* The context is cancelled while the producer still has a job to send, one
\* seeding goroutine waits in RunWithRetry and another is at the receive.
C37_Witness ==
    /\ Running /\ cancelled /\ main.pc = "seedWait"
    /\ ch.producer = "run" /\ ch.next < jobCount
    /\ \E k, j \in SeederIds :
         seeders[k].pc = "backoff" /\ seeders[j].pc = "recv"

\* C38: in long connection mode and in one-shot mode a task that has
\* returned holds no connection: Initialize and initDB after their return, a
\* seeding goroutine, a transfer goroutine, an attempt and a verification;
\* when all of them have returned no connection is checked out.
C38_NoConnectionLeak ==
    (Running /\ (cfg.UseLongConn \/ cfg.UseShortConnOnce)) =>
        /\ (main.pc \in {"initialize", "execute", "execWait"}
              => ~main.conn /\ ~main.base)
        /\ (main.pc = "shardLoop" => ~main.base)
        /\ \A k \in SeederIds : seeders[k].pc \in {"off", "done"} => ~seeders[k].conn
        /\ \A k \in WorkerIds : wk[k].pc \in {"off", "exited"} => ~wk[k].conn
        /\ \A k \in WorkerIds :
             (cfg.UseShortConnOnce /\ wk[k].pc = "loop") => ~wk[k].conn
        /\ \A s \in Shards : \A kd \in Kinds :
             verif[s][kd].pc \in {"off", "wait", "exited"} => ~verif[s][kd].conn
        /\ ((/\ main.pc \in {"execute", "execWait"}
             /\ \A k \in SeederIds : seeders[k].pc \in {"off", "done"}
             /\ \A k \in WorkerIds : wk[k].pc \in {"off", "exited"}
             /\ \A s \in Shards : \A kd \in Kinds :
                  verif[s][kd].pc \in {"off", "wait", "exited"})
              => InUse = 0)

\* Long connection mode after a cancellation: the transfer goroutine has
\* made an attempt and returned, the cadences of shard 0 have returned, and
\* Execute is about to return.
C38_Witness ==
    /\ Running /\ cfg.UseLongConn /\ cancelled /\ main.pc = "execWait"
    /\ begun >= 1 /\ wk[1].pc = "exited"
    /\ verif[0]["fast"].pc = "exited"
    /\ InUse = 0

\* C39: a step of a verification, fast or delayed, passing, failing or
\* interrupted, changes no account row and no audit row; besides its own
\* position it changes only stopped and `start`, and its log.Fatalf leaves
\* the store as it is; nor does a step of the initial verification change
\* the store.
C39_VerifyReadsOnly ==
    [][\A s \in Shards : \A kd \in {"fast", "delayed"} :
         LET v == verif[s][kd] IN
         /\ (v.pc \notin {"off", "exited"} /\ verif'[s][kd] # v /\ Running')
               => /\ accounts' = accounts /\ record' = record
                  /\ UNCHANGED <<cfg, TiDBDatabase, cancelled, main, ch, seeders,
                                 wk, begun>>
                  /\ \A s2 \in Shards \ {s} : verif'[s2] = verif[s2]
         /\ (v.pc \in {"fatalMismatch", "fatalTimeout"} /\ Running /\ ~Running')
               => accounts' = accounts /\ record' = record
         /\ (verif[s]["initial"].pc # "off"
                /\ verif'[s]["initial"] # verif[s]["initial"])
               => accounts' = accounts /\ record' = record]_vars

\* The store holds an audit row, the context is cancelled while the delayed
\* verification of shard 0 is in its delay, and the fast one is at its
\* SELECT.
C39_Witness ==
    /\ Running /\ cancelled /\ Len(record.rows) >= 1
    /\ verif[0]["delayed"].pc = "delay" /\ verif[0]["delayed"].elapsed >= 1
    /\ verif[0]["fast"].pc = "sum"

====
